---------------------------- MODULE Spec2Model ----------------------------
(***************************************************************************)
(* A model of the CODEOWNERS cache engine of code-input/cli:               *)
(*   - the cache store (store_cache / load_cache and the serde impls of    *)
(*     CodeownersCache), as a codec over byte/lexeme sequences;            *)
(*   - the cache builder (build_cache), and the inspect command over the   *)
(*     cache it built;                                                     *)
(*   - the repository fingerprint (get_repo_hash) and cache sync           *)
(*     (sync_cache) over a small git repository;                           *)
(*   - the rule parser (parse_line, parse_owner), the pattern              *)
(*     normalization and the inline marker scanner                         *)
(*     (detect_inline_codeowners), over texts as lists of characters;      *)
(*   - the history inference engine (analyze_file_ownership and the        *)
(*     infer-owners command), with the f64 arithmetic of its scores.       *)
(***************************************************************************)
EXTENDS Integers, Sequences, FiniteSets, TLC

(***************************************************************************)
(* Bounds of the model.                                                    *)
(***************************************************************************)
\* number of bytes of a fingerprint kept by the model (the code keeps 32)
HashLen == 2
\* longest list of rule entries given to build_cache
MaxRules == 2
\* longest list of files given to build_cache
MaxFiles == 3
\* number of files in a chunk of the parallel phase (the code's chunks hold 100)
ChunkSize == 2
\* number of distinct inputs SHA-256 is given in one behaviour
MaxDigests == 2
\* the longest owner string, over the characters '@', '/' and a letter
MaxOwnerLen == 5
\* the most pieces (a token with the white space before it) of a rule line
MaxPieces == 5
\* the longest pattern given to normalize_codeowners_pattern
MaxPatternLen == 4
\* the most pieces after the marker of an inline marker line
MaxInlinePieces == 3

\* the most hunks of the blame of a file
MaxHunks == 3
\* the most commits of the walk from HEAD
MaxCommits == 3
\* the most files the infer-owners command analyzes in a run
MaxAnalyzed == 2
\* the most authors of the blame of a file with many authors
MaxCrowd == 6

(***************************************************************************)
(* Generic helpers.                                                        *)
(***************************************************************************)
Range(s) == {s[i] : i \in DOMAIN s}

RECURSIVE Flatten(_)
Flatten(ss) == IF ss = <<>> THEN <<>> ELSE Head(ss) \o Flatten(Tail(ss))

RECURSIVE Join(_, _)
\* the sequences of ss, separated by the token sep
Join(ss, sep) ==
    IF ss = <<>> THEN <<>>
    ELSE IF Len(ss) = 1 THEN Head(ss)
    ELSE Head(ss) \o <<sep>> \o Join(Tail(ss), sep)

Prefix(s, n) == SubSeq(s, 1, n)

\* all the orders in which the elements of the finite set S can be listed
Orderings(S) ==
    {q \in [1..Cardinality(S) -> S] : \A i, j \in DOMAIN q : i # j => q[i] # q[j]}

\* the position of x in the sequence s (x occurs in s)
IndexOf(s, x) == CHOOSE i \in DOMAIN s : s[i] = x

(***************************************************************************)
(* The state.  Five groups of variables: the cache store alone,            *)
(* build_cache, cache sync over a repository, the parsers, the inference   *)
(* engine.  A specification leaves the other groups at their idle values.  *)
(***************************************************************************)
VARIABLES
    st_cache,     \* the cache value given to store_cache
    st_file,      \* the cache file
    st_enc,       \* the encoding of the last store_cache
    st_intact,    \* the file is as store_cache wrote it
    st_load       \* the outcome of the last load_cache

storeVars == <<st_cache, st_file, st_enc, st_intact, st_load>>

VARIABLES
    b_entries,        \* build_cache's argument entries
    b_files,          \* build_cache's argument files
    b_hash,           \* build_cache's argument hash
    b_failing,        \* the paths whose resolution fails
    b_pc,             \* where build_cache is
    matched_entries,  \* the compiled rules
    processed_count,  \* the shared progress counter
    b_pos,            \* per chunk, the number of its files done
    b_current,        \* per chunk, the progress numbers its worker has shown
    b_out,            \* per chunk, the Vec<FileEntry> collected so far
    file_entries,     \* the collected Vec<FileEntry>
    b_i,              \* the number of file entries the index pass has visited
    owners_map,
    tags_map,
    b_result,         \* what build_cache returned
    inspected         \* what the inspect command reported from the cache

buildVars == <<b_entries, b_files, b_hash, b_failing, b_pc, matched_entries,
               processed_count, b_pos, b_current, b_out, file_entries, b_i,
               owners_map, tags_map, b_result, inspected>>

VARIABLES
    isRepo,         \* the directory is a git repository
    gitlib,         \* how the git library behaves: whether it reads
                    \* ":(exclude)" in a pathspec as an exclusion, and whether
                    \* the diff printer emits the content of untracked files
    cache_file,     \* the cache file path the commands are given
    index,          \* the staging area: the blob of every tracked path
    workdir,        \* the working tree: the file at every path
    hashed,         \* the inputs SHA-256 has been given, with their digests
    last            \* the outcome of the last sync_cache or parse command

syncVars == <<isRepo, gitlib, cache_file, index, workdir, hashed, last>>

VARIABLES
    t_fn,     \* the function of the parsers that is called
    t_in,     \* its argument
    t_out     \* what it returned

textVars == <<t_fn, t_in, t_out>>

VARIABLES
    h_args,         \* the arguments of the infer-owners command
    h_files,        \* the files to analyze, each with its history
    h_pc,           \* where the command is
    h_i,            \* the number of files analyzed
    h_inferences,   \* the Vec of inferences
    h_last,         \* the last call of analyze_file_ownership
    h_output,       \* the rule file at the output path
    h_before,       \* the rule file when the command started
    h_result        \* what the command returned

inferVars == <<h_args, h_files, h_pc, h_i, h_inferences, h_last, h_output,
               h_before, h_result>>

vars == <<storeVars, buildVars, syncVars, textVars, inferVars>>

(***************************************************************************)
(* Names.  Strings of the program are atoms of the model; on the wire an   *)
(* atom is the position of its name in Atoms.                              *)
(***************************************************************************)
Atoms == << "CODEOWNERS", "src/main.rs", "app.js", "docs/README.md",
            ".codeowners.cache", "custom.cache",
            "*", "*.rs", "docs/", "[",
            "@default-team", "@rust-team", "@docs-team",
            "rust", "backend", "documentation",
            "src/special.rs", "@special-team", "special" >>

AtomCode(a) == IndexOf(Atoms, a)

\* OwnerType, in the order of the enum's variants
OwnerTypes == <<"User", "Team", "Email", "Unowned", "Unknown">>

(***************************************************************************)
(* The serde data model of the cache types.  A type is a record whose k    *)
(* field is its kind:                                                      *)
(*   u8, usize  integers;  str  a string (PathBuf, String);                *)
(*   enum       a unit-variant enum;                                       *)
(*   arr        a fixed-size array (serialized as a tuple, no length);     *)
(*   vec        a Vec (a sequence with its length);                        *)
(*   tup        a tuple;  rec  a struct with named fields.                 *)
(***************************************************************************)
TU8 == [k |-> "u8"]
TUsize == [k |-> "usize"]
TStr == [k |-> "str"]
TOwnerType == [k |-> "enum", variants |-> OwnerTypes]
TVec(T) == [k |-> "vec", of |-> T]
TArr(T, n) == [k |-> "arr", of |-> T, n |-> n]
TTup(Ts) == [k |-> "tup", of |-> Ts]
TRec(names, Ts) == [k |-> "rec", names |-> names, of |-> Ts]

TOwner == TRec(<<"identifier", "owner_type">>, <<TStr, TOwnerType>>)
\* Tag is a newtype struct: serde writes it as the string it wraps
TTag == TStr
TCodeownersEntry ==
    TRec(<<"source_file", "line_number", "pattern", "owners", "tags">>,
         <<TStr, TUsize, TStr, TVec(TOwner), TVec(TTag)>>)
TFileEntry ==
    TRec(<<"path", "owners", "tags">>, <<TStr, TVec(TOwner), TVec(TTag)>>)
\* what impl Serialize for CodeownersCache writes, field by field
TCacheWire ==
    TRec(<<"hash", "entries", "files", "owners_map", "tags_map">>,
         << TArr(TU8, HashLen),
            TVec(TCodeownersEntry),
            TVec(TFileEntry),
            TVec(TTup(<<TOwner, TVec(TStr)>>)),
            TVec(TTup(<<TTag, TVec(TStr)>>)) >>)

\* the fields of a value of a tup or rec type, in order
Fields(T, v) ==
    IF T.k = "rec" THEN [i \in DOMAIN T.of |-> v[T.names[i]]] ELSE v

\* the value of a tup or rec type with the fields fs
Unfields(T, fs) ==
    IF T.k = "rec"
    THEN [n \in Range(T.names) |-> fs[IndexOf(T.names, n)]]
    ELSE fs

(***************************************************************************)
(* The binary encoding (bincode, standard configuration, through serde).   *)
(* A file is a sequence of tokens.  A token below 256 is a byte; an        *)
(* integer below 251 is one varint byte; a string is abstracted to one     *)
(* byte, the code of its atom (its length and bytes are not modelled).     *)
(***************************************************************************)
IsByte(t) == t \in 0..255

RECURSIVE BinEnc(_, _)
BinEnc(T, v) ==
    CASE T.k = "u8" -> <<v>>
      [] T.k = "usize" -> <<v>>
      [] T.k = "str" -> <<AtomCode(v)>>
      [] T.k = "enum" -> <<IndexOf(T.variants, v) - 1>>
      [] T.k = "arr" -> Flatten([i \in 1..T.n |-> BinEnc(T.of, v[i])])
      [] T.k = "vec" -> <<Len(v)>> \o Flatten([i \in DOMAIN v |-> BinEnc(T.of, v[i])])
      [] T.k \in {"tup", "rec"} ->
            Flatten([i \in DOMAIN T.of |-> BinEnc(T.of[i], Fields(T, v)[i])])

\* the result of a decoder: the value read and the input left, or a failure
DecFail == [ok |-> FALSE, val |-> <<>>, rest |-> <<>>]
DecOk(v, rest) == [ok |-> TRUE, val |-> v, rest |-> rest]

RECURSIVE BinDec(_, _)
RECURSIVE BinDecAll(_, _)
\* one value of each type of Ts, one after the other
BinDecAll(Ts, s) ==
    IF Ts = <<>> THEN DecOk(<<>>, s)
    ELSE LET h == BinDec(Head(Ts), s) IN
         IF ~h.ok THEN DecFail
         ELSE LET t == BinDecAll(Tail(Ts), h.rest) IN
              IF ~t.ok THEN DecFail ELSE DecOk(<<h.val>> \o t.val, t.rest)

BinDec(T, s) ==
    CASE T.k \in {"u8", "usize", "str", "enum"} ->
            IF s = <<>> \/ ~IsByte(Head(s)) THEN DecFail
            ELSE (CASE T.k = "u8" -> DecOk(Head(s), Tail(s))
                    [] T.k = "usize" ->
                         \* 251..255 announce a wider integer: not produced here
                         IF Head(s) < 251 THEN DecOk(Head(s), Tail(s)) ELSE DecFail
                    [] T.k = "str" ->
                         IF Head(s) \in DOMAIN Atoms
                         THEN DecOk(Atoms[Head(s)], Tail(s)) ELSE DecFail
                    [] T.k = "enum" ->
                         IF Head(s) + 1 \in DOMAIN T.variants
                         THEN DecOk(T.variants[Head(s) + 1], Tail(s)) ELSE DecFail)
      [] T.k = "arr" -> BinDecAll([i \in 1..T.n |-> T.of], s)
      [] T.k = "vec" ->
            IF s = <<>> \/ ~IsByte(Head(s)) \/ Head(s) >= 251 THEN DecFail
            ELSE BinDecAll([i \in 1..Head(s) |-> T.of], Tail(s))
      [] T.k \in {"tup", "rec"} ->
            LET r == BinDecAll(T.of, s) IN
            IF r.ok THEN DecOk(Unfields(T, r.val), r.rest) ELSE DecFail

(***************************************************************************)
(* The readable encoding (serde_json, pretty printed; white space is not   *)
(* modelled).  The structural characters are their bytes; a string, a      *)
(* field name and a number are one lexeme each, above the bytes.           *)
(***************************************************************************)
\* b'{', the byte load_cache looks for
LBrace == 123
\* the other structural characters of JSON, as bytes
JsonChar == [rbrace |-> 125, lbracket |-> 91, rbracket |-> 93, comma |-> 44, colon |-> 58]
RBrace == JsonChar.rbrace
LBracket == JsonChar.lbracket
RBracket == JsonChar.rbracket
Comma == JsonChar.comma
Colon == JsonChar.colon
\* the classes of lexemes: every lexeme is a token above the bytes
LexClass == [str |-> 1000, key |-> 2000, num |-> 3000]
StrBase == LexClass.str
KeyBase == LexClass.key
NumBase == LexClass.num

KeyNames == << "hash", "entries", "files", "owners_map", "tags_map",
               "source_file", "line_number", "pattern", "owners", "tags",
               "path", "identifier", "owner_type" >>

StrLex(a) == StrBase + AtomCode(a)
KeyLex(n) == KeyBase + IndexOf(KeyNames, n)
NumLex(n) == NumBase + n
\* a unit variant is written as the string of its name
VariantLex(T, v) == StrBase + Len(Atoms) + IndexOf(T.variants, v)

RECURSIVE JsonEnc(_, _)
JsonEnc(T, v) ==
    CASE T.k \in {"u8", "usize"} -> <<NumLex(v)>>
      [] T.k = "str" -> <<StrLex(v)>>
      [] T.k = "enum" -> <<VariantLex(T, v)>>
      [] T.k = "arr" ->
            <<LBracket>> \o Join([i \in 1..T.n |-> JsonEnc(T.of, v[i])], Comma)
                         \o <<RBracket>>
      [] T.k = "vec" ->
            <<LBracket>> \o Join([i \in DOMAIN v |-> JsonEnc(T.of, v[i])], Comma)
                         \o <<RBracket>>
      [] T.k = "tup" ->
            <<LBracket>> \o Join([i \in DOMAIN T.of |-> JsonEnc(T.of[i], v[i])], Comma)
                         \o <<RBracket>>
      [] T.k = "rec" ->
            <<LBrace>>
            \o Join([i \in DOMAIN T.of |->
                        <<KeyLex(T.names[i]), Colon>> \o JsonEnc(T.of[i], v[T.names[i]])],
                    Comma)
            \o <<RBrace>>

RECURSIVE JsonDec(_, _)
RECURSIVE JsonDecAll(_, _, _)
RECURSIVE JsonDecMore(_, _)
\* the values of Ts[i..], separated by commas; keys gives the field names to
\* expect before each value (<<>> for the items of an array or tuple)
JsonDecAll(Ts, keys, s) ==
    IF Ts = <<>> THEN DecOk(<<>>, s)
    ELSE LET body == IF keys = <<>> THEN s
                     ELSE IF Len(s) >= 2 /\ s[1] = KeyLex(Head(keys)) /\ s[2] = Colon
                          THEN SubSeq(s, 3, Len(s)) ELSE <<>>
             h == JsonDec(Head(Ts), body)
         IN  IF ~h.ok THEN DecFail
             ELSE IF Len(Ts) = 1 THEN DecOk(<<h.val>>, h.rest)
             ELSE IF h.rest = <<>> \/ Head(h.rest) # Comma THEN DecFail
             ELSE LET t == JsonDecAll(Tail(Ts), IF keys = <<>> THEN <<>> ELSE Tail(keys),
                                      Tail(h.rest)) IN
                  IF ~t.ok THEN DecFail ELSE DecOk(<<h.val>> \o t.val, t.rest)

\* the items of a Vec after its first: "item , item ... ]"
JsonDecMore(T, s) ==
    LET h == JsonDec(T, s) IN
    IF ~h.ok \/ h.rest = <<>> THEN DecFail
    ELSE IF Head(h.rest) = RBracket THEN DecOk(<<h.val>>, Tail(h.rest))
    ELSE IF Head(h.rest) # Comma THEN DecFail
    ELSE LET t == JsonDecMore(T, Tail(h.rest)) IN
         IF ~t.ok THEN DecFail ELSE DecOk(<<h.val>> \o t.val, t.rest)

JsonDec(T, s) ==
    IF s = <<>> THEN DecFail
    ELSE
    CASE T.k = "u8" ->
            IF Head(s) - NumBase \in 0..255
            THEN DecOk(Head(s) - NumBase, Tail(s)) ELSE DecFail
      [] T.k = "usize" ->
            IF Head(s) >= NumBase THEN DecOk(Head(s) - NumBase, Tail(s)) ELSE DecFail
      [] T.k = "str" ->
            IF Head(s) - StrBase \in DOMAIN Atoms
            THEN DecOk(Atoms[Head(s) - StrBase], Tail(s)) ELSE DecFail
      [] T.k = "enum" ->
            IF Head(s) - StrBase - Len(Atoms) \in DOMAIN T.variants
            THEN DecOk(T.variants[Head(s) - StrBase - Len(Atoms)], Tail(s))
            ELSE DecFail
      [] T.k = "vec" ->
            IF Head(s) # LBracket \/ Len(s) < 2 THEN DecFail
            ELSE IF s[2] = RBracket THEN DecOk(<<>>, SubSeq(s, 3, Len(s)))
            ELSE JsonDecMore(T.of, Tail(s))
      [] T.k \in {"arr", "tup", "rec"} ->
            LET open == IF T.k = "rec" THEN LBrace ELSE LBracket
                close == IF T.k = "rec" THEN RBrace ELSE RBracket
                Ts == IF T.k = "arr" THEN [i \in 1..T.n |-> T.of] ELSE T.of
                r == JsonDecAll(Ts, IF T.k = "rec" THEN T.names ELSE <<>>, Tail(s))
            IN  IF Head(s) # open \/ ~r.ok \/ r.rest = <<>> \/ Head(r.rest) # close
                THEN DecFail
                ELSE DecOk(IF T.k = "rec" THEN Unfields(T, r.val) ELSE r.val,
                           Tail(r.rest))

(***************************************************************************)
(* CodeownersCache and its serde impls.  owners_map and tags_map are       *)
(* HashMaps: functions from their keys to lists of paths.                  *)
(***************************************************************************)
\* the format version the program expects (its value is not in the sources)
CACHE_VERSION == 1

\* the map built by inserting the (key, value) pairs of ps in order: a later
\* pair replaces an earlier one with the same key
MapOfPairs(ps) ==
    [key \in {ps[i][1] : i \in DOMAIN ps} |->
        LET latest == CHOOSE i \in DOMAIN ps :
                          /\ ps[i][1] = key
                          /\ \A j \in DOMAIN ps : ps[j][1] = key => j <= i
        IN  ps[latest][2]]

\* impl Serialize for CodeownersCache: the maps are written as lists of pairs,
\* in the order the HashMap iterates (oOrd and tOrd: any order of the keys)
SerializeCache(cache, oOrd, tOrd) ==
    [hash |-> cache.hash,
     entries |-> cache.entries,
     files |-> cache.files,
     owners_map |-> [i \in DOMAIN oOrd |-> <<oOrd[i], cache.owners_map[oOrd[i]]>>],
     tags_map |-> [i \in DOMAIN tOrd |-> <<tOrd[i], cache.tags_map[tOrd[i]]>>]]

\* impl Deserialize for CodeownersCache, for a file of format version v
DeserializeCache(helper, v) ==
    [version |-> v,
     hash |-> helper.hash,
     entries |-> helper.entries,
     files |-> helper.files,
     owners_map |-> MapOfPairs(helper.owners_map),
     tags_map |-> MapOfPairs(helper.tags_map)]

(***************************************************************************)
(* Files.  The Serialize impl of the sources writes no version field, and  *)
(* sync_cache reads one: a cache file is modelled as its bytes together    *)
(* with the format version its writer gave it.                             *)
(***************************************************************************)
NoFile == [exists |-> FALSE, version |-> 0, bytes |-> <<>>]
FileOf(v, bytes) == [exists |-> TRUE, version |-> v, bytes |-> bytes]

Encodings == {"Bincode", "Json"}

\* the file that store_cache makes of a cache
store_cache(cache, encoding, oOrd, tOrd) ==
    LET wire == SerializeCache(cache, oOrd, tOrd) IN
    FileOf(cache.version,
           IF encoding = "Bincode" THEN BinEnc(TCacheWire, wire)
                                   ELSE JsonEnc(TCacheWire, wire))

\* bincode::serde::decode_from_std_read: bytes after the value are not read
DecodeBincode(f) ==
    LET r == BinDec(TCacheWire, f.bytes) IN
    IF r.ok THEN [ok |-> TRUE, cache |-> DeserializeCache(r.val, f.version)]
    ELSE [ok |-> FALSE, cache |-> <<>>]

\* serde_json::from_reader: nothing may follow the value
DecodeJson(f) ==
    LET r == JsonDec(TCacheWire, f.bytes) IN
    IF r.ok /\ r.rest = <<>>
    THEN [ok |-> TRUE, cache |-> DeserializeCache(r.val, f.version)]
    ELSE [ok |-> FALSE, cache |-> <<>>]

\* load_cache on an existing file: the cache or a failure, and the decoders
\* it tried, in order
load_cache(f) ==
    IF f.bytes # <<>> /\ Head(f.bytes) = LBrace
    THEN LET j == DecodeJson(f) IN
         [ok |-> j.ok, cache |-> j.cache, tried |-> <<"Json">>]
    ELSE LET b == DecodeBincode(f) IN
         IF b.ok THEN [ok |-> TRUE, cache |-> b.cache, tried |-> <<"Bincode">>]
         ELSE LET j == DecodeJson(f) IN
              [ok |-> j.ok, cache |-> j.cache, tried |-> <<"Bincode", "Json">>]

(***************************************************************************)
(* Values of the cache types used as inputs.                               *)
(***************************************************************************)
Owner(id, type) == [identifier |-> id, owner_type |-> type]
DefaultTeam == Owner("@default-team", "User")
RustTeam == Owner("@rust-team", "User")
DocsTeam == Owner("@docs-team", "User")

Entry(line, pattern, owners, tags) ==
    [source_file |-> "CODEOWNERS", line_number |-> line, pattern |-> pattern,
     owners |-> owners, tags |-> tags]

FileEntry(path, owners, tags) == [path |-> path, owners |-> owners, tags |-> tags]

\* the bytes a fingerprint is made of in the stored-value checks
HashBytes == {7, LBrace}

\* every map from some keys of K to values of V
Maps(K, V) == UNION {[D -> V] : D \in SUBSET K}

StoreCaches ==
    [version : {CACHE_VERSION},
     hash : [1..HashLen -> HashBytes],
     entries : {<<>>, <<Entry(2, "*.rs", <<RustTeam>>, <<"rust", "backend">>)>>},
     files : {<<>>,
              <<FileEntry("app.js", <<>>, <<>>)>>,
              <<FileEntry("src/main.rs", <<RustTeam>>, <<"rust">>),
                FileEntry("app.js", <<DefaultTeam>>, <<>>)>>},
     owners_map : Maps({RustTeam, DefaultTeam}, {<<>>, <<"src/main.rs", "app.js">>}),
     tags_map : Maps({"rust"}, {<<"src/main.rs">>})]

(***************************************************************************)
(* The cache store on its own: a cache value is stored in either encoding, *)
(* the file may be cut short (a crash in the middle of a write), and is    *)
(* loaded again.                                                           *)
(***************************************************************************)
NotLoaded == [done |-> FALSE, ok |-> FALSE, cache |-> <<>>, tried |-> <<>>]

StoreIdle ==
    /\ st_cache = <<>>
    /\ st_file = NoFile
    /\ st_enc = "Bincode"
    /\ st_intact = FALSE
    /\ st_load = NotLoaded

StoreInit ==
    /\ st_cache \in StoreCaches
    /\ st_file = NoFile
    /\ st_enc = "Bincode"
    /\ st_intact = FALSE
    /\ st_load = NotLoaded

\* store_cache(&cache, path, encoding)
StStore(encoding) ==
    /\ \E oOrd \in Orderings(DOMAIN st_cache.owners_map),
          tOrd \in Orderings(DOMAIN st_cache.tags_map) :
            st_file' = store_cache(st_cache, encoding, oOrd, tOrd)
    /\ st_enc' = encoding
    /\ st_intact' = TRUE
    /\ st_load' = NotLoaded
    /\ UNCHANGED st_cache
    /\ UNCHANGED <<buildVars, syncVars, textVars, inferVars>>

\* the lengths a file of n tokens is cut to
CutLengths(n) == {0, 1, n \div 2, n - 1} \cap 0..(n - 1)

\* the file loses its end
StTruncate ==
    /\ st_file.exists /\ st_intact
    /\ \E n \in CutLengths(Len(st_file.bytes)) :
            st_file' = [st_file EXCEPT !.bytes = Prefix(@, n)]
    /\ st_intact' = FALSE
    /\ st_load' = NotLoaded
    /\ UNCHANGED <<st_cache, st_enc>>
    /\ UNCHANGED <<buildVars, syncVars, textVars, inferVars>>

\* load_cache(path)
StLoad ==
    /\ st_file.exists
    /\ LET r == load_cache(st_file) IN
       st_load' = [done |-> TRUE, ok |-> r.ok, cache |-> r.cache, tried |-> r.tried]
    /\ UNCHANGED <<st_cache, st_file, st_enc, st_intact>>
    /\ UNCHANGED <<buildVars, syncVars, textVars, inferVars>>

StoreNext ==
    \/ \E encoding \in Encodings : StStore(encoding)
    \/ StTruncate
    \/ StLoad

(***************************************************************************)
(* Text.  The parsers work on lines of text: a text is the list of its     *)
(* characters, each a one-character string.                                *)
(***************************************************************************)
\* char::is_whitespace, over the characters of the model
Whitespace == {" ", "\t"}

\* str::trim
trim(cs) ==
    LET solid == {i \in DOMAIN cs : cs[i] \notin Whitespace} IN
    IF solid = {} THEN <<>>
    ELSE SubSeq(cs, CHOOSE i \in solid : \A j \in solid : i <= j,
                    CHOOSE i \in solid : \A j \in solid : j <= i)

\* the length of the longest prefix of cs without a character of stops
RunLength(cs, stops) ==
    LET hits == {i \in DOMAIN cs : cs[i] \in stops} IN
    IF hits = {} THEN Len(cs)
    ELSE (CHOOSE i \in hits : \A j \in hits : i <= j) - 1

RECURSIVE split_whitespace(_)
\* str::split_whitespace: the maximal runs of characters that are no space
split_whitespace(cs) ==
    IF cs = <<>> THEN <<>>
    ELSE IF Head(cs) \in Whitespace THEN split_whitespace(Tail(cs))
    ELSE LET n == RunLength(cs, Whitespace) IN
         <<SubSeq(cs, 1, n)>> \o split_whitespace(SubSeq(cs, n + 1, Len(cs)))

RECURSIVE split(_, _)
\* str::split(sep): the parts between the separators, empty parts included
split(cs, sep) ==
    LET n == RunLength(cs, {sep}) IN
    IF n = Len(cs) THEN <<cs>>
    ELSE <<SubSeq(cs, 1, n)>> \o split(SubSeq(cs, n + 2, Len(cs)), sep)

\* str::starts_with
starts_with(cs, prefix) ==
    /\ Len(cs) >= Len(prefix)
    /\ SubSeq(cs, 1, Len(prefix)) = prefix

\* str::strip_prefix, for a prefix the text starts with
strip_prefix(cs, prefix) == SubSeq(cs, Len(prefix) + 1, Len(cs))

\* str::contains(char)
contains(cs, c) == \E i \in DOMAIN cs : cs[i] = c

\* str::find(pat): the first position (from 1) where pat starts, 0 if none
find(cs, pat) ==
    LET at == {i \in 1..(Len(cs) - Len(pat) + 1) :
                    SubSeq(cs, i, i + Len(pat) - 1) = pat} IN
    IF at = {} THEN 0 ELSE CHOOSE i \in at : \A j \in at : i <= j

\* u8::to_ascii_lowercase, over the letters of the model
to_ascii_lowercase(c) ==
    CASE c = "N" -> "n" [] c = "O" -> "o" [] c = "W" -> "w"
      [] c = "E" -> "e" [] c = "R" -> "r" [] OTHER -> c

\* str::eq_ignore_ascii_case
eq_ignore_ascii_case(a, b) ==
    /\ Len(a) = Len(b)
    /\ \A i \in DOMAIN a : to_ascii_lowercase(a[i]) = to_ascii_lowercase(b[i])

\* char::is_alphanumeric, over the characters of the model: every character
\* but the punctuation below is a letter
Punctuation == {" ", "\t", "@", "#", "/", "!", "*", "-", ">", ".", "_", "["}
is_alphanumeric(c) == c \notin Punctuation

(***************************************************************************)
(* The rule parser (parser.rs).  A Result is a record with ok; an Option   *)
(* is a list of no or one element.                                         *)
(***************************************************************************)
NOOWNER == <<"N", "O", "O", "W", "N", "E", "R">>

\* a classification that takes any '/' after the '@' for a team
parse_owner_any_slash(owner_str) ==
    [ok |-> TRUE,
     val |-> Owner(owner_str,
                IF eq_ignore_ascii_case(owner_str, NOOWNER) THEN "Unowned"
                ELSE IF starts_with(owner_str, <<"@">>)
                     THEN IF contains(owner_str, "/") THEN "Team" ELSE "User"
                ELSE IF contains(owner_str, "@") THEN "Email"
                ELSE "Unknown")]

\* a classification that looks for '@' anywhere before it looks at the start
parse_owner_email_first(owner_str) ==
    [ok |-> TRUE,
     val |-> Owner(owner_str,
                IF eq_ignore_ascii_case(owner_str, NOOWNER) THEN "Unowned"
                ELSE IF \E i \in 2..Len(owner_str) : owner_str[i] = "@" THEN "Email"
                ELSE IF starts_with(owner_str, <<"@">>)
                     THEN IF Len(split(strip_prefix(owner_str, <<"@">>), "/")) = 2
                          THEN "Team" ELSE "User"
                ELSE "Unknown")]

\* parse_owner
parse_owner(owner_str) ==
    LET identifier == owner_str
        owner_type ==
            IF eq_ignore_ascii_case(identifier, NOOWNER) THEN "Unowned"
            ELSE IF starts_with(owner_str, <<"@">>)
                 THEN LET parts == split(strip_prefix(owner_str, <<"@">>), "/") IN
                      IF Len(parts) = 2 THEN "Team" ELSE "User"
            ELSE IF contains(owner_str, "@") THEN "Email"
            ELSE "Unknown"
    IN  [ok |-> TRUE, val |-> Owner(identifier, owner_type)]

RECURSIVE collect_owners(_, _)
\* the owner loop of parse_line and of parse_inline_codeowners_line, from
\* token i: the owners, and the position of the first token it left
collect_owners(tokens, i) ==
    IF i <= Len(tokens) /\ ~starts_with(tokens[i], <<"#">>)
    THEN LET o == parse_owner(tokens[i])
             rest == collect_owners(tokens, i + 1)
         IN  IF ~o.ok THEN [ok |-> FALSE, owners |-> <<>>, i |-> i]
             ELSE [ok |-> rest.ok, owners |-> <<o.val>> \o rest.owners,
                   i |-> rest.i]
    ELSE [ok |-> TRUE, owners |-> <<>>, i |-> i]

RECURSIVE collect_tags_no_lookahead(_, _)
\* a tag loop that takes every '#name' token up to the first other token
collect_tags_no_lookahead(tokens, i) ==
    IF i > Len(tokens) THEN <<>>
    ELSE IF starts_with(tokens[i], <<"#">>) /\ Len(tokens[i]) > 1
         THEN <<strip_prefix(tokens[i], <<"#">>)>>
                  \o collect_tags_no_lookahead(tokens, i + 1)
         ELSE <<>>

RECURSIVE collect_tags(_, _)
\* the tag loop of parse_line, from token i
collect_tags(tokens, i) ==
    IF i > Len(tokens) THEN <<>>
    ELSE LET token == tokens[i] IN
         IF starts_with(token, <<"#">>)
         THEN LET tag_name == strip_prefix(token, <<"#">>)
                  next_is_non_tag == /\ i + 1 <= Len(tokens)
                                     /\ ~starts_with(tokens[i + 1], <<"#">>)
              IN  IF tag_name = <<>> THEN <<>>
                  ELSE IF next_is_non_tag THEN <<>>
                  ELSE <<tag_name>> \o collect_tags(tokens, i + 1)
         ELSE <<>>

\* a parse_line that gives no entry for a line without owners
parse_line_needs_owner(line, line_num, source_path) ==
    LET tokens == split_whitespace(trim(line))
        o == collect_owners(tokens, 2)
    IN  IF tokens = <<>> \/ starts_with(trim(line), <<"#">>) \/ o.owners = <<>>
        THEN [ok |-> TRUE, val |-> <<>>]
        ELSE [ok |-> TRUE,
              val |-> <<[source_file |-> source_path, line_number |-> line_num,
                         pattern |-> tokens[1], owners |-> o.owners,
                         tags |-> collect_tags(tokens, o.i)]>>]

\* parse_line
parse_line(line, line_num, source_path) ==
    LET trimmed == trim(line)
        tokens == split_whitespace(trimmed)
    IN  IF trimmed = <<>> \/ starts_with(trimmed, <<"#">>)
        THEN [ok |-> TRUE, val |-> <<>>]
        ELSE IF tokens = <<>> THEN [ok |-> TRUE, val |-> <<>>]
        ELSE LET o == collect_owners(tokens, 2) IN
             IF ~o.ok THEN [ok |-> FALSE, val |-> <<>>]
             ELSE [ok |-> TRUE,
                   val |-> <<[source_file |-> source_path,
                              line_number |-> line_num,
                              pattern |-> tokens[1],
                              owners |-> o.owners,
                              tags |-> collect_tags(tokens, o.i)]>>]

(***************************************************************************)
(* The inline marker scanner (inline_parser.rs).  A file is read line by   *)
(* line: n is the number of its lines, text holds the lines that are not   *)
(* plain code, by line number; a line is a Result, for a line that cannot  *)
(* be read (it is no UTF-8).                                               *)
(***************************************************************************)
Marker == <<"!", "!", "!", "C", "O", "D", "E", "O", "W", "N", "E", "R", "S">>

InlineScanLines == 50

CommentEnders == {<<"-", "-", ">">>, <<"*", "/">>}

RECURSIVE inline_tags(_, _)
\* the tag loop of parse_inline_codeowners_line, from token i
inline_tags(tokens, i) ==
    IF i > Len(tokens) THEN <<>>
    ELSE LET token == tokens[i] IN
         IF starts_with(token, <<"#">>)
         THEN LET tag_part == strip_prefix(token, <<"#">>) IN
              IF token = <<"#">> THEN <<>>
              ELSE IF tag_part = <<>> THEN <<>>
              ELSE IF i + 1 > Len(tokens)
                   THEN <<tag_part>> \o inline_tags(tokens, i + 1)
              ELSE IF tokens[i + 1] \in CommentEnders THEN <<tag_part>>
              ELSE IF starts_with(tokens[i + 1], <<"#">>)
                   THEN <<tag_part>> \o inline_tags(tokens, i + 1)
              ELSE IF \A k \in DOMAIN tag_part :
                          is_alphanumeric(tag_part[k]) \/ tag_part[k] \in {"-", "_"}
                   THEN <<tag_part>>
              ELSE <<>>
         ELSE <<>>

\* a line parser that returns the entry whether it has owners or not
parse_inline_codeowners_line_any(line, line_number, file_path) ==
    LET marker_pos == find(line, Marker)
        tokens == split_whitespace(SubSeq(line, marker_pos + Len(Marker), Len(line)))
        o == collect_owners(tokens, 1)
    IN  IF marker_pos = 0 \/ tokens = <<>> THEN [ok |-> TRUE, val |-> <<>>]
        ELSE [ok |-> TRUE,
              val |-> <<[file_path |-> file_path, line_number |-> line_number,
                         owners |-> o.owners,
                         tags |-> inline_tags(tokens, o.i)]>>]

\* a line parser that wants the marker at the start of the line
parse_inline_codeowners_line_at_start(line, line_number, file_path) ==
    LET tokens == split_whitespace(SubSeq(line, Len(Marker) + 1, Len(line)))
        o == collect_owners(tokens, 1)
    IN  IF ~starts_with(line, Marker) \/ tokens = <<>> \/ o.owners = <<>>
        THEN [ok |-> TRUE, val |-> <<>>]
        ELSE [ok |-> TRUE,
              val |-> <<[file_path |-> file_path, line_number |-> line_number,
                         owners |-> o.owners,
                         tags |-> inline_tags(tokens, o.i)]>>]

\* parse_inline_codeowners_line
parse_inline_codeowners_line(line, line_number, file_path) ==
    LET marker_pos == find(line, Marker) IN
    IF marker_pos = 0 THEN [ok |-> TRUE, val |-> <<>>]
    ELSE LET after_marker == SubSeq(line, marker_pos + Len(Marker), Len(line))
             tokens == split_whitespace(after_marker)
         IN  IF tokens = <<>> THEN [ok |-> TRUE, val |-> <<>>]
             ELSE LET o == collect_owners(tokens, 1) IN
                  IF ~o.ok THEN [ok |-> FALSE, val |-> <<>>]
                  ELSE IF o.owners # <<>>
                  THEN [ok |-> TRUE,
                        val |-> <<[file_path |-> file_path,
                                   line_number |-> line_number,
                                   owners |-> o.owners,
                                   tags |-> inline_tags(tokens, o.i)]>>]
                  ELSE [ok |-> TRUE, val |-> <<>>]

\* a line of plain code, and a line that cannot be read
PlainLine == [ok |-> TRUE, text |-> <<"a">>]
BadLine == [ok |-> FALSE, text |-> <<>>]

\* the k-th line_result of the reader
LineOf(f, k) == IF k \in DOMAIN f.text THEN f.text[k] ELSE PlainLine

RECURSIVE scan_lines(_, _, _)
\* the loop of detect_inline_codeowners from line k, over the first limit
\* lines
scan_lines(f, k, limit) ==
    IF k > limit \/ k > f.n THEN [ok |-> TRUE, val |-> <<>>]
    ELSE LET line_result == LineOf(f, k) IN
         IF ~line_result.ok THEN scan_lines(f, k + 1, limit)
         ELSE LET r == parse_inline_codeowners_line(line_result.text, k, f.path) IN
              IF ~r.ok \/ r.val # <<>> THEN r
              ELSE scan_lines(f, k + 1, limit)

\* a scanner that reads the file to its end
detect_inline_codeowners_all_lines(f) ==
    IF ~f.readable THEN [ok |-> TRUE, val |-> <<>>]
    ELSE scan_lines(f, 1, f.n)

\* detect_inline_codeowners
detect_inline_codeowners(f) ==
    IF ~f.readable THEN [ok |-> TRUE, val |-> <<>>]
    ELSE scan_lines(f, 1, InlineScanLines)

(***************************************************************************)
(* Patterns and matchers.  The glob library is outside the sources: a      *)
(* pattern is compiled to the set of paths (of the model's files) that it  *)
(* matches.  Patterns are kept as lists of characters so that              *)
(* normalize_codeowners_pattern is computed as the code computes it.       *)
(***************************************************************************)
PatternChars ==
    [p \in {"*", "*.rs", "docs/", "["} |->
        CASE p = "*" -> <<"*">>
          [] p = "*.rs" -> <<"*", ".", "r", "s">>
          [] p = "docs/" -> <<"d", "o", "c", "s", "/">>
          [] p = "[" -> <<"[">>]

ends_with(cs, suffix) ==
    /\ Len(cs) >= Len(suffix)
    /\ SubSeq(cs, Len(cs) - Len(suffix) + 1, Len(cs)) = suffix

\* a normalization that looks at the last character only
normalize_codeowners_pattern_last_char(pattern) ==
    IF ends_with(pattern, <<"/">>) THEN pattern \o <<"*", "*">> ELSE pattern

normalize_codeowners_pattern(pattern) ==
    IF /\ ends_with(pattern, <<"/">>)
       /\ ~ends_with(pattern, <<"*", "/">>)
       /\ ~ends_with(pattern, <<"*", "*", "/">>)
    THEN pattern \o <<"*", "*">>
    ELSE pattern

FilePaths == {"src/main.rs", "app.js", "docs/README.md", "src/special.rs"}
\* the paths find_files can return
AllPaths == FilePaths \cup {"custom.cache"}

\* OverrideBuilder::add: a character class that is not closed is not a glob
GlobIsValid(cs) == ~(\E i \in DOMAIN cs : cs[i] = "[")

\* the paths that the override matcher of a (normalized) glob whitelists
GlobMatches(cs) ==
    CASE cs = <<"*">> -> AllPaths
      [] cs = <<"*", ".", "r", "s">> -> {"src/main.rs", "src/special.rs"}
      [] cs = <<"d", "o", "c", "s", "/", "*", "*">> -> {"docs/README.md"}
      [] OTHER -> {}

\* codeowners_entry_to_matcher: the matcher of an entry, or an error
codeowners_entry_to_matcher(entry) ==
    LET pattern == normalize_codeowners_pattern(PatternChars[entry.pattern]) IN
    IF GlobIsValid(pattern)
    THEN [ok |-> TRUE,
          matcher |-> [source_file |-> entry.source_file,
                       line_number |-> entry.line_number,
                       pattern |-> entry.pattern,
                       owners |-> entry.owners,
                       tags |-> entry.tags,
                       override_matcher |-> GlobMatches(pattern)]]
    ELSE [ok |-> FALSE, matcher |-> <<>>]

RECURSIVE LastMatch(_, _, _)
\* the last matcher of the list that matches the path, best if there is none
LastMatch(file_path, matchers, best) ==
    IF matchers = <<>> THEN best
    ELSE LastMatch(file_path, Tail(matchers),
                   IF file_path \in Head(matchers).override_matcher
                   THEN <<Head(matchers)>> ELSE best)

\* the names an inline marker can give, as they are spelled
NameChars ==
    [a \in {"@special-team", "special"} |->
        CASE a = "@special-team" -> <<"@", "s", "p", "e", "c", "i", "a", "l", "-", "t", "e", "a", "m">>
          [] a = "special" -> <<"s", "p", "e", "c", "i", "a", "l">>]

\* the name that is spelled cs
NameOf(cs) == CHOOSE a \in DOMAIN NameChars : NameChars[a] = cs

\* the content of the files of the repository: src/special.rs starts with a
\* line that holds an inline marker, the other files are plain code
SpecialLine == <<"/", "/", " ", "!", "!", "!", "C", "O", "D", "E", "O", "W", "N", "E", "R", "S", " ", "@", "s", "p", "e", "c", "i", "a", "l", "-", "t", "e", "a", "m", " ", "#", "s", "p", "e", "c", "i", "a", "l">>

SourceOf(file_path) ==
    IF file_path = "src/special.rs"
    THEN [path |-> file_path, readable |-> TRUE, n |-> 2,
          text |-> (1 :> [ok |-> TRUE, text |-> SpecialLine])]
    ELSE [path |-> file_path, readable |-> TRUE, n |-> 1, text |-> <<>>]

\* the owners and the tags of an inline entry, with their names
InlineOwners(entry) ==
    [i \in DOMAIN entry.owners |->
        Owner(NameOf(entry.owners[i].identifier), entry.owners[i].owner_type)]
InlineTags(entry) == [i \in DOMAIN entry.tags |-> NameOf(entry.tags[i])]

\* find_owners_and_tags_for_file: the inline entry of the file if it has
\* one; otherwise last match wins, for the owners and for the tags; failing
\* is the set of paths whose resolution returns an error
find_owners_and_tags_for_file(file_path, matchers, failing) ==
    LET Resolved(inline) ==
            IF ~inline.ok THEN [ok |-> FALSE, owners |-> <<>>, tags |-> <<>>]
            ELSE IF inline.val # <<>>
            THEN [ok |-> TRUE, owners |-> InlineOwners(inline.val[1]),
                  tags |-> InlineTags(inline.val[1])]
            ELSE LET m == LastMatch(file_path, matchers, <<>>) IN
                 IF m = <<>> THEN [ok |-> TRUE, owners |-> <<>>, tags |-> <<>>]
                 ELSE [ok |-> TRUE, owners |-> m[1].owners, tags |-> m[1].tags]
    IN  IF file_path \in failing THEN [ok |-> FALSE, owners |-> <<>>, tags |-> <<>>]
        ELSE CHOOSE r \in {Resolved(inline) :
                            inline \in {detect_inline_codeowners(SourceOf(file_path))}} :
                TRUE

(***************************************************************************)
(* build_cache, step by step.                                              *)
(***************************************************************************)
RECURSIVE matched_entries_of_reversed(_)
\* a filter_map that yields the matchers in the reverse order
matched_entries_of_reversed(entries) ==
    IF entries = <<>> THEN [ok |-> TRUE, list |-> <<>>]
    ELSE LET m == codeowners_entry_to_matcher(Head(entries))
             rest == matched_entries_of_reversed(Tail(entries))
         IN  [ok |-> rest.ok,
              list |-> rest.list \o (IF m.ok THEN <<m.matcher>> ELSE <<>>)]

RECURSIVE matched_entries_of_abort(_)
\* a compilation that returns the first error of an entry to the caller
matched_entries_of_abort(entries) ==
    IF entries = <<>> THEN [ok |-> TRUE, list |-> <<>>]
    ELSE LET m == codeowners_entry_to_matcher(Head(entries))
             rest == matched_entries_of_abort(Tail(entries))
         IN  [ok |-> m.ok /\ rest.ok,
              list |-> (IF m.ok THEN <<m.matcher>> ELSE <<>>) \o rest.list]

RECURSIVE matched_entries_of(_)
\* the filter_map over the entries: an entry whose pattern does not compile
\* is skipped; the build itself goes on (ok)
matched_entries_of(entries) ==
    IF entries = <<>> THEN [ok |-> TRUE, list |-> <<>>]
    ELSE LET m == codeowners_entry_to_matcher(Head(entries))
             rest == matched_entries_of(Tail(entries))
         IN  [ok |-> rest.ok,
              list |-> (IF m.ok THEN <<m.matcher>> ELSE <<>>) \o rest.list]

\* a closure that yields nothing for a path whose resolution fails
file_entry_of_drop(file_path, matchers, failing) ==
    LET r == find_owners_and_tags_for_file(file_path, matchers, failing) IN
    IF r.ok THEN <<FileEntry(file_path, r.owners, r.tags)>>
    ELSE <<>>

\* what the closure of the parallel phase yields for one path
file_entry_of(file_path, matchers, failing) ==
    CHOOSE fe \in
        {IF r.ok THEN <<FileEntry(file_path, r.owners, r.tags)>>
                 ELSE <<FileEntry(file_path, <<>>, <<>>)>> :
            r \in {find_owners_and_tags_for_file(file_path, matchers, failing)}} :
        TRUE

\* an insert that replaces the paths of the key
PushPath_overwrite(map, key, path) ==
    [k \in DOMAIN map \cup {key} |-> IF k = key THEN <<path>> ELSE map[k]]

\* map.entry(key).or_insert_with(Vec::new).push(path)
PushPath(map, key, path) ==
    IF key \in DOMAIN map
    THEN [map EXCEPT ![key] = Append(@, path)]
    ELSE [k \in DOMAIN map \cup {key} |-> IF k = key THEN <<path>> ELSE map[k]]

RECURSIVE PushAll(_, _, _)
\* for key in keys { PushPath }
PushAll(map, keys, path) ==
    IF keys = <<>> THEN map
    ELSE PushAll(PushPath(map, Head(keys), path), Tail(keys), path)

\* files.par_chunks(ChunkSize): the c-th chunk
NumChunks(files) == (Len(files) + ChunkSize - 1) \div ChunkSize
Chunk(files, c) ==
    SubSeq(files, (c - 1) * ChunkSize + 1,
           IF c * ChunkSize < Len(files) THEN c * ChunkSize ELSE Len(files))

EmptyMap == [k \in {} |-> <<>>]

\* inspect has not run
NotInspected == [called |-> FALSE]

BuildLocalsInit ==
    /\ matched_entries = <<>>
    /\ processed_count = 0
    /\ b_pos = <<>>
    /\ b_current = <<>>
    /\ b_out = <<>>
    /\ file_entries = <<>>
    /\ b_i = 0
    /\ owners_map = EmptyMap
    /\ tags_map = EmptyMap
    /\ b_result = <<>>
    /\ inspected = NotInspected

BuildIdle ==
    /\ b_entries = <<>>
    /\ b_files = <<>>
    /\ b_hash = <<>>
    /\ b_failing = {}
    /\ b_pc = "idle"
    /\ BuildLocalsInit

\* the rules a CODEOWNERS line can hold; the last one does not compile
RuleSet ==
    { [pattern |-> "*", owners |-> <<DefaultTeam>>, tags |-> <<>>],
      [pattern |-> "*.rs", owners |-> <<RustTeam>>, tags |-> <<"rust", "backend">>],
      [pattern |-> "docs/", owners |-> <<DocsTeam>>, tags |-> <<"documentation">>],
      [pattern |-> "[", owners |-> <<DocsTeam>>, tags |-> <<"rust">>] }

\* the entries of a CODEOWNERS file whose lines hold the rules rs
EntriesOf(rs) ==
    [i \in DOMAIN rs |-> Entry(i, rs[i].pattern, rs[i].owners, rs[i].tags)]

SeqsUpTo(S, n) == UNION {[1..m -> S] : m \in 0..n}

BuildInit ==
    /\ b_entries \in {EntriesOf(rs) : rs \in SeqsUpTo(RuleSet, MaxRules)}
    /\ b_files \in SeqsUpTo(FilePaths, MaxFiles)
    /\ b_hash = [i \in 1..HashLen |-> 7]
    /\ b_failing \in {{}} \cup {{p} : p \in FilePaths}
    /\ b_pc = "start"
    /\ BuildLocalsInit

\* lines 27-48: the matchers are built, the counter is created
BuildCompile ==
    /\ b_pc = "start"
    /\ LET m == matched_entries_of(b_entries) IN
       IF m.ok
       THEN /\ matched_entries' = m.list
            /\ b_pc' = "resolve"
            /\ b_result' = b_result
       ELSE /\ matched_entries' = <<>>
            /\ b_pc' = "done"
            /\ b_result' = [ok |-> FALSE, cache |-> <<>>]
    /\ b_pos' = [c \in 1..NumChunks(b_files) |-> 0]
    /\ b_current' = [c \in 1..NumChunks(b_files) |-> <<>>]
    /\ b_out' = [c \in 1..NumChunks(b_files) |-> <<>>]
    /\ UNCHANGED <<b_entries, b_files, b_hash, b_failing, processed_count,
                   file_entries, b_i, owners_map, tags_map>>
    /\ UNCHANGED <<storeVars, syncVars, textVars, inferVars, inspected>>

\* a store of val that gives back the value it replaces
fetch_add_swap(counter, val) == [previous |-> counter, counter |-> val]

\* AtomicUsize::fetch_add: the value before the addition, and the counter
\* after it
fetch_add(counter, val) == [previous |-> counter, counter |-> counter + val]

\* lines 55-57: the worker of chunk c takes the progress number of its next
\* file
BuildCount(c) ==
    /\ b_pc = "resolve"
    /\ b_pos[c] < Len(Chunk(b_files, c))
    /\ Len(b_current[c]) = b_pos[c]
    /\ \E r \in {fetch_add(processed_count, 1)} :
            /\ processed_count' = r.counter
            /\ b_current' = [b_current EXCEPT ![c] = Append(@, r.previous + 1)]
    /\ UNCHANGED <<b_entries, b_files, b_hash, b_failing, b_pc, matched_entries,
                   b_pos, b_out, file_entries, b_i, owners_map, tags_map, b_result>>
    /\ UNCHANGED <<storeVars, syncVars, textVars, inferVars, inspected>>

\* lines 59-93: the worker of chunk c shows the progress and resolves the file
BuildResolve(c) ==
    /\ b_pc = "resolve"
    /\ b_pos[c] < Len(Chunk(b_files, c))
    /\ Len(b_current[c]) = b_pos[c] + 1
    /\ LET file_path == Chunk(b_files, c)[b_pos[c] + 1] IN
       b_out' = [b_out EXCEPT ![c] = @ \o file_entry_of(file_path, matched_entries, b_failing)]
    /\ b_pos' = [b_pos EXCEPT ![c] = @ + 1]
    /\ UNCHANGED <<b_entries, b_files, b_hash, b_failing, b_pc, matched_entries,
                   processed_count, b_current, file_entries, b_i, owners_map, tags_map,
                   b_result>>
    /\ UNCHANGED <<storeVars, syncVars, textVars, inferVars, inspected>>

\* a collection that does not wait for the workers: it takes what the chunks
\* hold so far
BuildCollect_no_barrier ==
    /\ b_pc = "resolve"
    /\ file_entries' = Flatten(b_out)
    /\ b_i' = 0
    /\ b_pc' = "index"
    /\ UNCHANGED <<b_entries, b_files, b_hash, b_failing, matched_entries,
                   processed_count, b_pos, b_current, b_out, owners_map, tags_map,
                   b_result>>
    /\ UNCHANGED <<storeVars, syncVars, textVars, inferVars, inspected>>

\* a collection in the order in which the workers finish, as workers that
\* push to a shared Vec give it: the chunk whose worker took its last
\* progress number first comes first
BuildCollect_as_finished ==
    /\ b_pc = "resolve"
    /\ \A c \in DOMAIN b_pos : b_pos[c] = Len(Chunk(b_files, c))
    /\ \E order \in {q \in Orderings(DOMAIN b_out) :
                        \A i, j \in DOMAIN q :
                            i < j => b_current[q[i]][Len(b_current[q[i]])]
                                        < b_current[q[j]][Len(b_current[q[j]])]} :
            file_entries' = Flatten([i \in DOMAIN order |-> b_out[order[i]]])
    /\ b_i' = 0
    /\ b_pc' = "index"
    /\ UNCHANGED <<b_entries, b_files, b_hash, b_failing, matched_entries,
                   processed_count, b_pos, b_current, b_out, owners_map, tags_map,
                   b_result>>
    /\ UNCHANGED <<storeVars, syncVars, textVars, inferVars, inspected>>

\* lines 95-97: every chunk is done; the chunks' results are collected in order
BuildCollect ==
    /\ b_pc = "resolve"
    /\ \A c \in DOMAIN b_pos : b_pos[c] = Len(Chunk(b_files, c))
    /\ file_entries' = Flatten(b_out)
    /\ b_i' = 0
    /\ b_pc' = "index"
    /\ UNCHANGED <<b_entries, b_files, b_hash, b_failing, matched_entries,
                   processed_count, b_pos, b_current, b_out, owners_map, tags_map, b_result>>
    /\ UNCHANGED <<storeVars, syncVars, textVars, inferVars, inspected>>

\* the maps after the index pass has visited file_entry
index_file_entry(maps, file_entry) ==
    [owners |-> PushAll(maps.owners, file_entry.owners, file_entry.path),
     tags |-> PushAll(maps.tags, file_entry.tags, file_entry.path)]

RECURSIVE IndexAll(_, _)
\* for file_entry in &file_entries { ... }
IndexAll(maps, fes) ==
    IF fes = <<>> THEN maps
    ELSE IndexAll(index_file_entry(maps, Head(fes)), Tail(fes))

\* build_cache as a function of its arguments: what one call returns
build_cache(entries, files, hash, failing) ==
    LET m == matched_entries_of(entries)
        CacheOf(fes, maps) ==
            [version |-> CACHE_VERSION,
             hash |-> hash,
             entries |-> entries,
             files |-> fes,
             owners_map |-> maps.owners,
             tags_map |-> maps.tags]
    IN  IF ~m.ok THEN [ok |-> FALSE, cache |-> <<>>]
        ELSE CHOOSE r \in
                {[ok |-> TRUE, cache |-> CacheOf(fes, maps)] :
                    <<fes, maps>> \in
                        {<<f, IndexAll([owners |-> EmptyMap, tags |-> EmptyMap], f)>> :
                            f \in {Flatten([i \in DOMAIN files |->
                                        file_entry_of(files[i], m.list, failing)])}}} :
                TRUE

\* lines 108-121: the index pass visits the next file entry
BuildIndex ==
    /\ b_pc = "index"
    /\ b_i < Len(file_entries)
    /\ LET maps == index_file_entry([owners |-> owners_map, tags |-> tags_map],
                                    file_entries[b_i + 1]) IN
       /\ owners_map' = maps.owners
       /\ tags_map' = maps.tags
    /\ b_i' = b_i + 1
    /\ UNCHANGED <<b_entries, b_files, b_hash, b_failing, b_pc, matched_entries,
                   processed_count, b_pos, b_current, b_out, file_entries, b_result>>
    /\ UNCHANGED <<storeVars, syncVars, textVars, inferVars, inspected>>

\* lines 123-130
BuildReturn ==
    /\ b_pc = "index"
    /\ b_i = Len(file_entries)
    /\ b_result' = [ok |-> TRUE,
                    cache |-> [version |-> CACHE_VERSION,
                               hash |-> b_hash,
                               entries |-> b_entries,
                               files |-> file_entries,
                               owners_map |-> owners_map,
                               tags_map |-> tags_map]]
    /\ b_pc' = "done"
    /\ UNCHANGED <<b_entries, b_files, b_hash, b_failing, matched_entries,
                   processed_count, b_pos, b_current, b_out, file_entries, b_i, owners_map,
                   tags_map>>
    /\ UNCHANGED <<storeVars, syncVars, textVars, inferVars, inspected>>

\* the paths of the files as they are spelled
PathChars ==
    [p \in AllPaths |->
        CASE p = "src/main.rs" -> <<"s", "r", "c", "/", "m", "a", "i", "n", ".", "r", "s">>
          [] p = "app.js" -> <<"a", "p", "p", ".", "j", "s">>
          [] p = "docs/README.md" ->
                <<"d", "o", "c", "s", "/", "R", "E", "A", "D", "M", "E", ".", "m", "d">>
          [] p = "src/special.rs" ->
                <<"s", "r", "c", "/", "s", "p", "e", "c", "i", "a", "l", ".", "r", "s">>
          [] p = "custom.cache" ->
                <<"c", "u", "s", "t", "o", "m", ".", "c", "a", "c", "h", "e">>]

\* commands/inspect.rs, lines 61-80: the filter of the matching entries
inspect_matches(pattern, file_str) ==
    IF ends_with(pattern, <<"*">>)
    THEN starts_with(file_str, SubSeq(pattern, 1, Len(pattern) - 1))
    ELSE IF starts_with(pattern, <<"*">>)
    THEN ends_with(file_str, strip_prefix(pattern, <<"*">>))
    ELSE IF contains(pattern, "*")
    THEN LET parts == split(pattern, "*") IN
         IF Len(parts) = 2
         THEN starts_with(file_str, parts[1]) /\ ends_with(file_str, parts[2])
         ELSE file_str = pattern \/ starts_with(file_str, pattern \o <<"/">>)
    ELSE file_str = pattern \/ starts_with(file_str, pattern \o <<"/">>)

\* the entries the filter keeps for the path
matching_entries_of(entries, file_path) ==
    SelectSeq(entries,
              LAMBDA entry : inspect_matches(PatternChars[entry.pattern],
                                             PathChars[file_path]))

\* commands/inspect.rs run, on the cache that sync_cache gave it (line 19),
\* for a relative path without "./": the file is looked up in the cache and
\* the entries are filtered
Inspect(file_path) ==
    /\ b_pc = "done"
    /\ b_result.ok
    /\ ~inspected.called
    /\ LET cache == b_result.cache
           found == {i \in DOMAIN cache.files : cache.files[i].path = file_path}
       IN  IF found = {}
           THEN inspected' = [called |-> TRUE, ok |-> FALSE, file_path |-> file_path]
           ELSE LET file_entry == cache.files[CHOOSE i \in found : \A j \in found : i <= j]
                IN  inspected' = [called |-> TRUE,
                                  ok |-> TRUE,
                                  file_path |-> file_path,
                                  owners |-> file_entry.owners,
                                  tags |-> file_entry.tags,
                                  matching_rules |->
                                      matching_entries_of(cache.entries, file_path)]
    /\ UNCHANGED <<b_entries, b_files, b_hash, b_failing, b_pc, matched_entries,
                   processed_count, b_pos, b_current, b_out, file_entries, b_i,
                   owners_map, tags_map, b_result>>
    /\ UNCHANGED <<storeVars, syncVars, textVars, inferVars>>

BuildNext ==
    \/ \E file_path \in FilePaths : Inspect(file_path)
    \/ BuildCompile
    \/ \E c \in DOMAIN b_pos : BuildCount(c)
    \/ \E c \in DOMAIN b_pos : BuildResolve(c)
    \/ BuildCollect
    \/ BuildIndex
    \/ BuildReturn

(***************************************************************************)
(* The repository: a working tree, a staging area and HEAD.                *)
(***************************************************************************)
CachePaths == {".codeowners.cache", "custom.cache"}
RepoPaths == {"CODEOWNERS", "src/main.rs"} \cup CachePaths

\* a file that is no cache, with content n
SourceFile(n) == FileOf(0, <<n>>)

\* HASH_EXCLUDED_PATTERNS: ".codeowners.cache" and "*.codeowners.cache"; star
\* says that the pattern starts with '*', text is the pattern without it
HASH_EXCLUDED_PATTERNS ==
    << [star |-> FALSE, text |-> ".codeowners.cache"],
       [star |-> TRUE, text |-> ".codeowners.cache"] >>

\* path.ends_with(suffix), for the paths of the model
PathEndsWith(path, suffix) ==
    <<path, suffix>> \in {<<".codeowners.cache", ".codeowners.cache">>}

\* the test of lines 106-112 (and of the exclude pathspecs of lines 93-95)
IsHashExcluded(path) ==
    \E i \in DOMAIN HASH_EXCLUDED_PATTERNS :
        LET p == HASH_EXCLUDED_PATTERNS[i] IN
        IF p.star THEN PathEndsWith(path, p.text) ELSE path = p.text

\* the pathspec ":(exclude)" \o pattern read as a pattern itself: no path of
\* the model starts with the text ":(exclude)"
MatchesAsLiteral(path, p) == FALSE

\* lines 93-95: the paths the pathspecs leave in the diff.  A library that
\* knows the exclude magic drops the excluded paths; one that does not keeps
\* the paths that match a pathspec as written.
InDiff(path, lib) ==
    IF lib.pathspec_magic
    THEN ~IsHashExcluded(path)
    ELSE \E i \in DOMAIN HASH_EXCLUDED_PATTERNS :
            MatchesAsLiteral(path, HASH_EXCLUDED_PATTERNS[i])

\* diff_index_to_workdir with include_untracked: a path has a delta when the
\* working tree differs from the index; the patch of a modified or deleted
\* file is printed, that of an untracked file only if the printer shows
\* untracked content
HasPrintedDelta(old, new, lib) ==
    IF old.exists THEN old # new ELSE new.exists /\ lib.show_untracked

\* what the hasher of lines 101-120 is fed
UnstagedDiff(idx, wd, lib) ==
    LET hashedPaths == {p \in RepoPaths :
                            /\ InDiff(p, lib)
                            /\ HasPrintedDelta(idx[p], wd[p], lib)
                            /\ ~IsHashExcluded(p)}
    IN  {[path |-> p, old |-> idx[p], new |-> wd[p]] : p \in hashedPaths}

\* what the final hasher is fed: the index tree and the unstaged hash (and
\* HEAD, which no action of the model moves)
HashInput(idx, wd, lib) == <<idx, UnstagedDiff(idx, wd, lib)>>

(***************************************************************************)
(* SHA-256, as a collision-free oracle: an input it has seen keeps its     *)
(* digest; the k-th new input gets a digest no other input has, with any   *)
(* first byte.                                                             *)
(***************************************************************************)
DigestOf(k, b) == [i \in 1..HashLen |-> IF i = 1 THEN b ELSE k]

KnownDigests(input) ==
    {hashed[i].digest : i \in {j \in DOMAIN hashed : hashed[j].input = input}}

Sha256(input) ==
    IF KnownDigests(input) # {} THEN KnownDigests(input)
    ELSE IF Len(hashed) < MaxDigests
         THEN {DigestOf(Len(hashed) + 1, b) : b \in HashBytes}
         ELSE {}

Remember(input, d) ==
    IF KnownDigests(input) # {} THEN hashed
    ELSE Append(hashed, [input |-> input, digest |-> d])

\* get_repo_hash, d being the digest of the repository's state
get_repo_hash(d) ==
    IF isRepo THEN [ok |-> TRUE, hash |-> d] ELSE [ok |-> FALSE, hash |-> <<>>]

(***************************************************************************)
(* The rebuild: the parse command, and parse_repo, which sync_cache calls. *)
(***************************************************************************)
\* the rules of the repository's CODEOWNERS file
RepoRules ==
    << Entry(1, "*", <<DefaultTeam>>, <<>>),
       Entry(2, "*.rs", <<RustTeam>>, <<"rust">>) >>

\* find_files: every file but CODEOWNERS; the walker skips hidden files
find_files(wd) ==
    SelectSeq(<<"src/main.rs", "custom.cache">>, LAMBDA p : wd[p].exists)

Err(e) == [ok |-> FALSE, cache |-> <<>>, err |-> e]
Ok(c) == [ok |-> TRUE, cache |-> c, err |-> ""]

\* a run that builds and stores the cache before it looks at the outcome of
\* the fingerprint
parse_run_store_first(encoding, d) ==
    LET fp == get_repo_hash(d)
        hash == IF fp.ok THEN fp.hash ELSE [i \in 1..HashLen |-> 0]
        b == build_cache(RepoRules, find_files(workdir), hash, {})
    IN  IF ~b.ok THEN [result |-> Err("build"), files |-> {}]
        ELSE [result |-> IF fp.ok THEN Ok(b.cache) ELSE Err("repo"),
              files |-> {store_cache(b.cache, encoding, oOrd, tOrd) :
                           oOrd \in Orderings(DOMAIN b.cache.owners_map),
                           tOrd \in Orderings(DOMAIN b.cache.tags_map)}]

\* commands/parse.rs run, lines 26-47: the result, and the files that
\* store_cache may write (one per iteration order of the maps)
parse_run(encoding, d) ==
    LET fp == get_repo_hash(d)
        Stored(b) ==
            IF ~b.ok THEN [result |-> Err("build"), files |-> {}]
            ELSE [result |-> Ok(b.cache),
                  files |-> {store_cache(b.cache, encoding, oOrd, tOrd) :
                               oOrd \in Orderings(DOMAIN b.cache.owners_map),
                               tOrd \in Orderings(DOMAIN b.cache.tags_map)}]
    IN  IF ~fp.ok THEN [result |-> Err("repo"), files |-> {}]
        ELSE CHOOSE r \in {Stored(b) :
                            b \in {build_cache(RepoRules, find_files(workdir),
                                               fp.hash, {})}} :
                TRUE

\* parse_repo(repo, cache_file): the rebuild of sync_cache, which returns the
\* cache it stored
parse_repo(d) == parse_run("Bincode", d)

(***************************************************************************)
(* sync_cache.                                                             *)
(***************************************************************************)
NoCache == <<>>

\* a continuation that reports a cache that does not load to the caller
sync_cache_loaded_propagate(l, fp) ==
    IF ~l.ok THEN [branch |-> "decode_error", cache |-> NoCache]
    ELSE IF l.cache.version # CACHE_VERSION
         THEN [branch |-> "version", cache |-> NoCache]
    ELSE IF ~fp.ok THEN [branch |-> "repo_error", cache |-> NoCache]
    ELSE IF l.cache.hash # fp.hash THEN [branch |-> "hash", cache |-> NoCache]
    ELSE [branch |-> "reuse", cache |-> l.cache]

\* a continuation that compares the fingerprints before the versions
sync_cache_loaded_hash_first(l, fp) ==
    IF ~l.ok THEN [branch |-> "loadfail", cache |-> NoCache]
    ELSE IF ~fp.ok THEN [branch |-> "repo_error", cache |-> NoCache]
    ELSE IF l.cache.hash # fp.hash THEN [branch |-> "hash", cache |-> NoCache]
    ELSE IF l.cache.version # CACHE_VERSION
         THEN [branch |-> "version", cache |-> NoCache]
    ELSE [branch |-> "reuse", cache |-> l.cache]

\* a continuation that does not look at the version of the loaded cache
sync_cache_loaded_any_version(l, fp) ==
    IF ~l.ok THEN [branch |-> "loadfail", cache |-> NoCache]
    ELSE IF ~fp.ok THEN [branch |-> "repo_error", cache |-> NoCache]
    ELSE IF l.cache.hash # fp.hash THEN [branch |-> "hash", cache |-> NoCache]
    ELSE [branch |-> "reuse", cache |-> l.cache]

\* sync_cache from line 223 on: l is what load_cache returned, fp what
\* get_repo_hash returns for the repository (the call is made on line 243)
sync_cache_loaded(l, fp) ==
    IF ~l.ok THEN [branch |-> "loadfail", cache |-> NoCache]
    ELSE IF l.cache.version # CACHE_VERSION
         THEN [branch |-> "version", cache |-> NoCache]
    ELSE IF ~fp.ok THEN [branch |-> "repo_error", cache |-> NoCache]
    ELSE IF l.cache.hash # fp.hash THEN [branch |-> "hash", cache |-> NoCache]
    ELSE [branch |-> "reuse", cache |-> l.cache]

\* sync_cache, lines 216-251: the branch it takes for the cache file f, and
\* the loaded cache it returns on the last one
sync_cache(f, fp) ==
    IF ~f.exists THEN [branch |-> "absent", cache |-> NoCache]
    ELSE sync_cache_loaded(load_cache(f), fp)

\* the branches that end in parse_repo
RebuildBranches == {"absent", "loadfail", "version", "hash"}
\* the branches on which line 243 (get_repo_hash) is reached
HashingBranches == {"repo_error", "hash", "reuse"}

NoOp ==
    [op |-> "none", branch |-> "", hashing |-> FALSE, rebuilt |-> FALSE,
     wrote |-> FALSE, result |-> Err(""), pre_file |-> NoFile,
     pre_fp |-> [ok |-> FALSE, hash |-> <<>>],
     fp_stable |-> TRUE, second |-> FALSE, first_hash |-> <<>>]

SyncIdle ==
    /\ isRepo = FALSE
    /\ gitlib = [pathspec_magic |-> FALSE, show_untracked |-> FALSE]
    /\ cache_file = ""
    /\ index = <<>>
    /\ workdir = <<>>
    /\ hashed = <<>>
    /\ last = NoOp

SyncInit ==
    /\ isRepo \in BOOLEAN
    /\ gitlib \in [pathspec_magic : BOOLEAN, show_untracked : BOOLEAN]
    /\ cache_file \in CachePaths
    \* stale: the path already holds a file, which is no cache
    /\ \E stale \in BOOLEAN :
        /\ workdir = [p \in RepoPaths |->
                        IF p \in CachePaths /\ ~(stale /\ p = cache_file)
                        THEN NoFile ELSE SourceFile(1)]
        \* the files have been staged (git add .)
        /\ index = [p \in RepoPaths |-> IF isRepo THEN workdir[p] ELSE NoFile]
    /\ hashed = <<>>
    /\ last = NoOp

CurrentInput == HashInput(index, workdir, gitlib)

\* the digest of the repository's state: none is needed outside a repository
Digests == IF isRepo THEN Sha256(CurrentInput) ELSE {<<>>}
Learn(d) == IF isRepo THEN Remember(CurrentInput, d) ELSE hashed

\* the hash input after the cache file has become nf
InputAfter(nf) ==
    HashInput(index, [workdir EXCEPT ![cache_file] = nf], gitlib)

\* the result sync_cache returns on branch s, r being the rebuild's outcome
SyncResult(s, r) ==
    CASE s.branch \in RebuildBranches -> r.result
      [] s.branch = "reuse" -> Ok(s.cache)
      [] s.branch = "repo_error" -> Err("repo")
      [] OTHER -> Err("decode")

NoRebuild == [result |-> Err(""), files |-> {}]

\* a call of sync_cache(repo, cache_file)
Sync ==
    \E d \in Digests :
    \E s \in {sync_cache(workdir[cache_file], get_repo_hash(d))} :
    \E r \in {IF s.branch \in RebuildBranches THEN parse_repo(d) ELSE NoRebuild} :
    \E nf \in (IF r.files = {} THEN {workdir[cache_file]} ELSE r.files) :
        /\ workdir' = [workdir EXCEPT ![cache_file] = nf]
        /\ last' = [op |-> "sync",
                    branch |-> s.branch,
                    hashing |-> s.branch \in HashingBranches,
                    rebuilt |-> s.branch \in RebuildBranches,
                    wrote |-> r.files # {},
                    result |-> SyncResult(s, r),
                    pre_file |-> workdir[cache_file],
                    pre_fp |-> get_repo_hash(d),
                    fp_stable |-> InputAfter(nf) = CurrentInput,
                    second |-> last.op = "sync" /\ last.result.ok,
                    first_hash |-> IF last.result.ok
                                   THEN last.result.cache.hash ELSE <<>>]
        /\ hashed' = Learn(d)
        /\ UNCHANGED <<isRepo, gitlib, cache_file, index>>
        /\ UNCHANGED <<storeVars, buildVars, textVars, inferVars>>

\* the parse command: commands/parse.rs run(path, cache_file, encoding)
ParseCmd(encoding) ==
    \E d \in Digests :
    \E r \in {parse_run(encoding, d)} :
    \E nf \in (IF r.files = {} THEN {workdir[cache_file]} ELSE r.files) :
        /\ workdir' = [workdir EXCEPT ![cache_file] = nf]
        /\ last' = [NoOp EXCEPT
                        !.op = "parse",
                        !.rebuilt = TRUE,
                        !.wrote = (r.files # {}),
                        !.result = r.result,
                        !.pre_file = workdir[cache_file],
                        !.pre_fp = get_repo_hash(d),
                        !.fp_stable = (InputAfter(nf) = CurrentInput)]
        /\ hashed' = Learn(d)
        /\ UNCHANGED <<isRepo, gitlib, cache_file, index>>
        /\ UNCHANGED <<storeVars, buildVars, textVars, inferVars>>

(***************************************************************************)
(* What the user and other programs do to the repository.                  *)
(***************************************************************************)
\* the source file is edited
EditSource ==
    /\ workdir["src/main.rs"] = SourceFile(1)
    /\ workdir' = [workdir EXCEPT !["src/main.rs"] = SourceFile(2)]
    /\ last' = NoOp
    /\ UNCHANGED <<isRepo, gitlib, cache_file, index, hashed>>
    /\ UNCHANGED <<storeVars, buildVars, textVars, inferVars>>

\* git add path
GitAdd(path) ==
    /\ isRepo
    /\ workdir[path].exists
    /\ index[path] # workdir[path]
    /\ index' = [index EXCEPT ![path] = workdir[path]]
    /\ last' = NoOp
    /\ UNCHANGED <<isRepo, gitlib, cache_file, workdir, hashed>>
    /\ UNCHANGED <<storeVars, buildVars, textVars, inferVars>>

\* the .git directory is removed
RemoveGitDir ==
    /\ isRepo
    /\ isRepo' = FALSE
    /\ index' = [p \in RepoPaths |-> NoFile]
    /\ last' = NoOp
    /\ UNCHANGED <<gitlib, cache_file, workdir, hashed>>
    /\ UNCHANGED <<storeVars, buildVars, textVars, inferVars>>

\* the write of the cache file was cut short: the file is empty, or lacks
\* its end
DamageCache ==
    /\ last.wrote
    /\ \E n \in {0, Len(workdir[cache_file].bytes) - 1} :
            workdir' = [workdir EXCEPT ![cache_file].bytes = Prefix(@, n)]
    /\ last' = NoOp
    /\ UNCHANGED <<isRepo, gitlib, cache_file, index, hashed>>
    /\ UNCHANGED <<storeVars, buildVars, textVars, inferVars>>

\* the cache file was written by a release with another format version
OtherRelease ==
    /\ last.wrote
    /\ workdir' = [workdir EXCEPT ![cache_file].version = CACHE_VERSION - 1]
    /\ last' = NoOp
    /\ UNCHANGED <<isRepo, gitlib, cache_file, index, hashed>>
    /\ UNCHANGED <<storeVars, buildVars, textVars, inferVars>>

SyncNext ==
    \/ Sync
    \/ \E encoding \in Encodings : ParseCmd(encoding)
    \/ EditSource
    \/ GitAdd("src/main.rs")
    \/ RemoveGitDir
    \/ DamageCache
    \/ OtherRelease

(***************************************************************************)
(* Numbers.  An f64 of the program is modelled bit for bit (IEEE 754       *)
(* binary64, round to nearest, ties to even).  A natural number of the     *)
(* arithmetic is the list of its digits in base 2^14, lowest digit first,  *)
(* without high zeros; a finite f64 that is not negative is m * 2^e with m *)
(* zero or odd and below 2^53.  The values of the model stay far from the  *)
(* ends of the exponent range: overflow, subnormal numbers, infinities and *)
(* NaN are not modelled, and no value of the model is negative.            *)
(***************************************************************************)
MANTISSA_DIGITS == 53

LimbBits == 14
Base == 2 ^ LimbBits

\* F(v), v being computed once
With(v, F(_)) == CHOOSE r \in {F(x) : x \in {v}} : TRUE

Max(S) == CHOOSE i \in S : \A j \in S : j <= i
Min(S) == CHOOSE i \in S : \A j \in S : i <= j

Limb(n, i) == IF i \in DOMAIN n THEN n[i] ELSE 0

Trim(n) ==
    IF \A i \in DOMAIN n : n[i] = 0 THEN <<>>
    ELSE SubSeq(n, 1, Max({i \in DOMAIN n : n[i] # 0}))

\* the natural number k, for k below 2^31
NatOf(k) == Trim(<<k % Base, (k \div Base) % Base, k \div (Base * Base)>>)

RECURSIVE Carried(_, _, _)
\* the digits of the number whose columns are cols
Carried(cols, i, carry) ==
    IF i > Len(cols) /\ carry = 0 THEN <<>>
    ELSE <<(Limb(cols, i) + carry) % Base>>
         \o Carried(cols, i + 1, (Limb(cols, i) + carry) \div Base)

AddNat(a, b) ==
    Carried([i \in 1..(IF Len(a) > Len(b) THEN Len(a) ELSE Len(b)) |->
                Limb(a, i) + Limb(b, i)], 1, 0)

RECURSIVE Borrowed(_, _, _, _)
Borrowed(a, b, i, borrow) ==
    IF i > Len(a) THEN <<>>
    ELSE IF a[i] - Limb(b, i) - borrow < 0
    THEN <<a[i] - Limb(b, i) - borrow + Base>> \o Borrowed(a, b, i + 1, 1)
    ELSE <<a[i] - Limb(b, i) - borrow>> \o Borrowed(a, b, i + 1, 0)

\* a - b, for a >= b
SubNat(a, b) == Trim(Borrowed(a, b, 1, 0))

\* a >= b
GeNat(a, b) ==
    IF Len(a) # Len(b) THEN Len(a) > Len(b)
    ELSE \/ a = b
         \/ a # b /\ a[Max({i \in DOMAIN a : a[i] # b[i]})] > b[Max({i \in DOMAIN a : a[i] # b[i]})]

RECURSIVE Column(_, _, _, _)
Column(a, b, c, i) ==
    IF i > Len(a) THEN 0
    ELSE (a[i] * Limb(b, c + 1 - i)) + Column(a, b, c, i + 1)

\* a * b, for a below 2^56
MulNat(a, b) ==
    IF a = <<>> \/ b = <<>> THEN <<>>
    ELSE Trim(Carried([c \in 1..(Len(a) + Len(b)) |-> Column(a, b, c, 1)], 1, 0))

\* the number of bits of a digit x that is not zero
Width(x) == CHOOSE k \in 1..LimbBits : 2 ^ (k - 1) <= x /\ x < 2 ^ k

BitLen(n) == IF n = <<>> THEN 0 ELSE (LimbBits * (Len(n) - 1)) + Width(n[Len(n)])

\* bit k of n, the lowest bit being bit 1
BitAt(n, k) ==
    (Limb(n, ((k - 1) \div LimbBits) + 1) \div (2 ^ ((k - 1) % LimbBits))) % 2

\* n \div 2^d
ShiftRight(n, d) ==
    Trim([i \in 1..(Len(n) - (d \div LimbBits)) |->
            (Limb(n, i + (d \div LimbBits)) \div (2 ^ (d % LimbBits)))
            + ((Limb(n, i + (d \div LimbBits) + 1) % (2 ^ (d % LimbBits)))
               * (2 ^ (LimbBits - (d % LimbBits))))])

\* n * 2^d
ShiftLeft(n, d) ==
    Trim([i \in 1..(Len(n) + (d \div LimbBits) + 1) |->
            ((Limb(n, i - (d \div LimbBits)) % (2 ^ (LimbBits - (d % LimbBits))))
             * (2 ^ (d % LimbBits)))
            + (Limb(n, i - (d \div LimbBits) - 1) \div (2 ^ (LimbBits - (d % LimbBits))))])

\* the number of low zero bits of n, n not zero
TrailingZeros(n) ==
    (LimbBits * (Min({i \in DOMAIN n : n[i] # 0}) - 1))
    + (CHOOSE z \in 0..(LimbBits - 1) :
          /\ n[Min({i \in DOMAIN n : n[i] # 0})] % (2 ^ z) = 0
          /\ (n[Min({i \in DOMAIN n : n[i] # 0})] \div (2 ^ z)) % 2 = 1)

F64Zero == [m |-> <<>>, e |-> 0]

\* the f64 n * 2^e, for n below 2^53
Canon(n, e) ==
    IF n = <<>> THEN F64Zero
    ELSE [m |-> ShiftRight(n, TrailingZeros(n)), e |-> e + TrailingZeros(n)]

\* the f64 nearest to n * 2^e, ties to even, where d bits are to go
RoundOff(n, e, d) ==
    IF d <= 0 THEN Canon(n, e)
    ELSE IF /\ BitAt(n, d) = 1
            /\ \/ BitAt(n, d + 1) = 1
               \/ ShiftLeft(ShiftRight(n, d - 1), d - 1) # n
    THEN Canon(AddNat(ShiftRight(n, d), <<1>>), e + d)
    ELSE Canon(ShiftRight(n, d), e + d)

Round(n, e) == RoundOff(n, e, BitLen(n) - MANTISSA_DIGITS)

\* n as f64, for a u32 or usize n below 2^31
F64(n) == Canon(NatOf(n), 0)

MinExp(a, b) == IF a.e < b.e THEN a.e ELSE b.e

\* the natural number a / 2^e, for e at most a.e
Scaled(a, e) == ShiftLeft(a.m, a.e - e)

f64_add(a, b) ==
    IF a.m = <<>> THEN b
    ELSE IF b.m = <<>> THEN a
    ELSE Round(AddNat(Scaled(a, MinExp(a, b)), Scaled(b, MinExp(a, b))), MinExp(a, b))

\* a >= b
f64_ge(a, b) ==
    \/ b.m = <<>>
    \/ a.m # <<>> /\ GeNat(Scaled(a, MinExp(a, b)), Scaled(b, MinExp(a, b)))

\* a - b, for a >= b
f64_sub(a, b) ==
    IF b.m = <<>> THEN a
    ELSE Round(SubNat(Scaled(a, MinExp(a, b)), Scaled(b, MinExp(a, b))), MinExp(a, b))

f64_mul(a, b) == Round(MulNat(a.m, b.m), a.e + b.e)

\* (2 * n) + bit
DoublePlus(n, bit) ==
    Trim([i \in 1..(Len(n) + 1) |->
            ((Limb(n, i) % (Base \div 2)) * 2) + (Limb(n, i - 1) \div (Base \div 2))
            + (IF i = 1 THEN bit ELSE 0)])

\* one step of the long division of num by den: bit p of num comes down
DivStep(num, den, st, p) ==
    CHOOSE x \in
        {IF GeNat(r, den)
         THEN [q |-> DoublePlus(st.q, 1), r |-> SubNat(r, den)]
         ELSE [q |-> DoublePlus(st.q, 0), r |-> r] :
            r \in {DoublePlus(st.r, BitAt(num, p))}} : TRUE

RECURSIVE DivSteps(_, _, _, _, _)
\* the steps for the bits hi down to lo of num
DivSteps(num, den, st, hi, lo) ==
    IF hi < lo THEN st
    ELSE IF hi = lo THEN DivStep(num, den, st, hi)
    ELSE CHOOSE x \in
            {DivSteps(num, den, s, (hi + lo) \div 2, lo) :
                s \in {DivSteps(num, den, st, hi, ((hi + lo) \div 2) + 1)}} : TRUE

\* the long division of num by den, den having the bits of num above it as
\* first remainder: they are one fewer than the bits of den
LongDiv(num, den) ==
    DivSteps(num, den,
             [q |-> <<>>, r |-> ShiftRight(num, BitLen(num) - BitLen(den) + 1)],
             BitLen(num) - BitLen(den) + 1, 1)

RECURSIVE ShortDiv(_, _, _, _)
\* the division of num by a den of one digit, from digit i of num down, r
\* being the remainder so far
ShortDiv(num, den, i, r) ==
    IF i = 0 THEN [q |-> <<>>, r |-> NatOf(r)]
    ELSE With(ShortDiv(num, den, i - 1, ((r * Base) + num[i]) % den), LAMBDA rest :
            [q |-> Append(rest.q, ((r * Base) + num[i]) \div den), r |-> rest.r])

\* quotient and remainder of num by den, den not zero and num not below it
DivNat(num, den) ==
    IF Len(den) = 1
    THEN With(ShortDiv(num, den[1], Len(num), 0), LAMBDA qr : [q |-> Trim(qr.q), r |-> qr.r])
    ELSE LongDiv(num, den)

\* a / b, for b not zero: a quotient of 55 bits or more, and one more low
\* bit for a remainder that is not zero
f64_div(a, b) ==
    IF a.m = <<>> THEN F64Zero
    ELSE CHOOSE x \in
            {IF qr.r = <<>> THEN Round(qr.q, a.e - b.e - s)
             ELSE Round(DoublePlus(qr.q, 1), a.e - b.e - s - 1) :
                <<s, qr>> \in
                    {<<k, DivNat(ShiftLeft(a.m, k), b.m)>> :
                        k \in {MANTISSA_DIGITS + 2 + BitLen(b.m) - BitLen(a.m)}}} : TRUE

f64_max(a, b) == IF f64_ge(a, b) THEN a ELSE b
f64_min(a, b) == IF f64_ge(a, b) THEN b ELSE a

(***************************************************************************)
(* The history inference engine (commands/infer_owners.rs).  The history   *)
(* of a file is what the git library reports of it: the hunks of its blame *)
(* and the commits of the walk from HEAD, in the order of the walk.  Time  *)
(* is counted in days.  The engine runs without a cache (load_cache        *)
(* failed), so existing_owners is empty.                                   *)
(***************************************************************************)
\* chrono::Utc::now(), in days
Now == 1000

\* the authors of the histories
Authors == <<"alice", "bob", "carol", "dave", "erin", "frank", "grace">>

Emails == Range(Authors)

InferAlgorithms == {"Commits", "Lines", "Recent"}

InferredOwner(email, score, commits, lines, days_ago) ==
    [email |-> email,
     username |-> <<>>,
     score |-> score,
     commits |-> commits,
     lines |-> lines,
     last_commit_days_ago |-> days_ago]

\* contributors.entry(email) set to owner
Entered(contributors, owner) ==
    [e \in DOMAIN contributors \cup {owner.email} |->
        IF e = owner.email THEN owner ELSE contributors[e]]

\* contributors.retain(|_, c| c.commits >= min_commits)
retain(contributors, min_commits) ==
    [e \in {x \in DOMAIN contributors : contributors[x].commits >= min_commits} |->
        contributors[e]]

\* lines 243-262: a hunk is added to the entry of its author; the entry
\* starts with last_commit_days_ago = u32::MAX, which the first min replaces
hunk_entry(contributors, hunk) ==
    IF hunk.email \in DOMAIN contributors
    THEN With(contributors[hunk.email], LAMBDA c :
            InferredOwner(c.email,
                          f64_add(c.score, F64(hunk.lines_in_hunk)),
                          c.commits + 1,
                          c.lines + hunk.lines_in_hunk,
                          IF hunk.days_ago < c.last_commit_days_ago
                          THEN hunk.days_ago ELSE c.last_commit_days_ago))
    ELSE InferredOwner(hunk.email, F64(hunk.lines_in_hunk), 1,
                       hunk.lines_in_hunk, hunk.days_ago)

RECURSIVE blame_contributors(_, _, _)
\* for hunk in blame.iter() { ... }, from hunk i on
blame_contributors(blame, i, contributors) ==
    IF i > Len(blame) THEN contributors
    ELSE blame_contributors(blame, i + 1,
            Entered(contributors, hunk_entry(contributors, blame[i])))

analyze_by_lines(blame, min_commits) ==
    retain(blame_contributors(blame, 1, <<>>), min_commits)

\* the literal 0.1
Tenth == f64_div(F64(1), F64(10))

\* (1.0 / (1.0 + days_ago / 30.0)).max(0.1)
recency_weight(days_ago) ==
    f64_max(f64_div(F64(1), f64_add(F64(1), f64_div(F64(days_ago), F64(30)))), Tenth)

analyze_by_recent_activity(blame, min_commits) ==
    With(analyze_by_lines(blame, min_commits), LAMBDA contributors :
        [e \in DOMAIN contributors |->
            [contributors[e] EXCEPT
                !.score = f64_mul(@, recency_weight(contributors[e].last_commit_days_ago))]])

\* a commit whose diff to its first parent has a delta with file_path as its
\* old or as its new path
commit_touches_file(commit, file_path) ==
    \E i \in DOMAIN commit.deltas :
        \/ commit.deltas[i].new_file = <<file_path>>
        \/ commit.deltas[i].old_file = <<file_path>>

\* lines 305-321
commit_entry(contributors, commit) ==
    IF commit.email \in DOMAIN contributors
    THEN With(contributors[commit.email], LAMBDA c :
            InferredOwner(c.email,
                          f64_add(c.score, F64(1)),
                          c.commits + 1,
                          c.lines,
                          IF Now - commit.time < c.last_commit_days_ago
                          THEN Now - commit.time ELSE c.last_commit_days_ago))
    ELSE InferredOwner(commit.email, F64(1), 1, 0, Now - commit.time)

RECURSIVE revwalk_no_break(_, _, _, _, _)
\* a walk that goes on to the end of the log and counts every commit
revwalk_no_break(log, i, file_path, lookback_days, contributors) ==
    IF i > Len(log) THEN contributors
    ELSE IF commit_touches_file(log[i], file_path)
    THEN revwalk_no_break(log, i + 1, file_path, lookback_days,
                          Entered(contributors, commit_entry(contributors, log[i])))
    ELSE revwalk_no_break(log, i + 1, file_path, lookback_days, contributors)

RECURSIVE revwalk(_, _, _, _, _)
\* for oid in revwalk { ... }, from commit i of the walk on
revwalk(log, i, file_path, lookback_days, contributors) ==
    IF i > Len(log) THEN contributors
    ELSE IF lookback_days > 0 /\ log[i].time < Now - lookback_days
    THEN contributors
    ELSE IF commit_touches_file(log[i], file_path)
    THEN revwalk(log, i + 1, file_path, lookback_days,
                 Entered(contributors, commit_entry(contributors, log[i])))
    ELSE revwalk(log, i + 1, file_path, lookback_days, contributors)

analyze_by_commits(log, file_path, lookback_days, min_commits) ==
    retain(revwalk(log, 1, file_path, lookback_days, <<>>), min_commits)

RECURSIVE sum(_, _)
\* values.map(|c| c.score).sum(), from the i-th value on
sum(values, i) ==
    IF i = 0 THEN F64Zero
    ELSE f64_add(sum(values, i - 1), values[i].score)

\* (min_percentage as f64 / 100.0) * total_score
min_score_of(min_percentage, total_score) ==
    f64_mul(f64_div(F64(min_percentage), F64(100)), total_score)

\* the values whose score is at least min_score, in their order
RECURSIVE filter_by_score(_, _)
filter_by_score(values, min_score) ==
    IF values = <<>> THEN <<>>
    ELSE IF f64_ge(Head(values).score, min_score)
    THEN <<Head(values)>> \o filter_by_score(Tail(values), min_score)
    ELSE filter_by_score(Tail(values), min_score)

\* owner put into a list sorted by score descending, after its equals
Inserted(sorted, owner) ==
    With(Cardinality({i \in DOMAIN sorted : f64_ge(sorted[i].score, owner.score)}),
         LAMBDA k : SubSeq(sorted, 1, k) \o <<owner>> \o SubSeq(sorted, k + 1, Len(sorted)))

RECURSIVE sort_by_score(_, _)
\* sort_by(|a, b| b.score.partial_cmp(&a.score)): a stable sort
sort_by_score(owners, i) ==
    IF i = 0 THEN <<>>
    ELSE Inserted(sort_by_score(owners, i - 1), owners[i])

\* a penalty that counts the competitors of the top candidate only
candidate_penalty_competitors(len) ==
    f64_sub(F64(1), f64_mul(F64(len - 1), Tenth))

\* 1.0 - (len.min(5) as f64 * 0.1)
candidate_penalty(len) ==
    f64_sub(F64(1), f64_mul(F64(IF len < 5 THEN len ELSE 5), Tenth))

\* x.clamp(0.0, 1.0)
clamp01(x) == f64_min(f64_max(x, F64Zero), F64(1))

\* lines 199-206
confidence_of(inferred_owners, total_score) ==
    IF inferred_owners = <<>> THEN F64Zero
    ELSE clamp01(f64_mul(IF total_score.m # <<>>
                         THEN f64_div(inferred_owners[1].score, total_score)
                         ELSE F64Zero,
                         candidate_penalty(Len(inferred_owners))))

\* what the blame of a file that HEAD does not hold gives
NoBlame == [ok |-> FALSE, hunks |-> <<>>]

\* lines 180-184
contributors_of(file, algorithm, lookback_days, min_commits) ==
    CASE algorithm = "Lines" -> analyze_by_lines(file.blame.hunks, min_commits)
      [] algorithm = "Commits" ->
            analyze_by_commits(file.log, file.path, lookback_days, min_commits)
      [] algorithm = "Recent" -> analyze_by_recent_activity(file.blame.hunks, min_commits)

\* lines 187-213, for the contributors in the order the HashMap yields them
inference_of(file_path, values, min_percentage) ==
    With(sum(values, Len(values)), LAMBDA total_score :
    With(min_score_of(min_percentage, total_score), LAMBDA min_score :
    With(filter_by_score(values, min_score), LAMBDA kept :
    With(sort_by_score(kept, Len(kept)), LAMBDA inferred_owners :
            [file_path |-> file_path,
             inferred_owners |-> inferred_owners,
             confidence |-> confidence_of(inferred_owners, total_score),
             existing_owners |-> <<>>]))))

\* the orders in which a HashMap of these contributors can yield them
HashOrders(contributors) == Orderings(DOMAIN contributors)

\* analyze_file_ownership, order being the order in which the HashMap of the
\* contributors yields them
analyze_file_ownership(file, algorithm, lookback_days, min_commits, min_percentage, order) ==
    IF ~file.blame.ok THEN [ok |-> FALSE, val |-> <<>>]
    ELSE With(contributors_of(file, algorithm, lookback_days, min_commits),
              LAMBDA contributors :
                [ok |-> TRUE,
                 val |-> inference_of(file.path,
                            [i \in DOMAIN order |-> contributors[order[i]]],
                            min_percentage)])

\* the bytes of a line of the rule file
OutputLine(inference) ==
    <<inference.file_path, " ", inference.inferred_owners[1].email, "\n">>

RECURSIVE output_lines(_)
\* lines 435-441, each line with the line feed writeln! adds
output_lines(inferences) ==
    IF inferences = <<>> THEN <<>>
    ELSE IF Head(inferences).inferred_owners # <<>>
    THEN OutputLine(Head(inferences)) \o output_lines(Tail(inferences))
    ELSE output_lines(Tail(inferences))

\* a file opened for writing and cut to nothing, not for appending
output_codeowners_truncate(inferences, output_file) ==
    IF ~output_file.writable THEN [ok |-> FALSE, file |-> output_file]
    ELSE [ok |-> TRUE,
          file |-> [exists |-> TRUE, writable |-> TRUE,
                    content |-> output_lines(inferences)]]

\* output_codeowners with output_file = Some(path): the file at path after
\* the call, and whether the call returned Ok
output_codeowners(inferences, output_file) ==
    IF ~output_file.writable THEN [ok |-> FALSE, file |-> output_file]
    ELSE [ok |-> TRUE,
          file |-> [exists |-> TRUE, writable |-> TRUE,
                    content |-> output_file.content \o output_lines(inferences)]]

(***************************************************************************)
(* The infer-owners command from its loop on (lines 100-124): the files to *)
(* analyze are analyzed one by one, then the result is put out.            *)
(***************************************************************************)
NotAnalyzed == [called |-> FALSE]

InferIdle ==
    /\ h_args = <<>>
    /\ h_files = <<>>
    /\ h_pc = "idle"
    /\ h_i = 0
    /\ h_inferences = <<>>
    /\ h_last = NotAnalyzed
    /\ h_output = <<>>
    /\ h_before = <<>>
    /\ h_result = <<>>

Hunk(email, lines_in_hunk, days_ago) ==
    [email |-> email, lines_in_hunk |-> lines_in_hunk, days_ago |-> days_ago]

\* the hunks a blame is made of
BlameHunks ==
    { Hunk("alice", 70, 0), Hunk("bob", 20, 45), Hunk("carol", 10, 300),
      Hunk("alice", 18, 0), Hunk("bob", 7, 45) }

Blames == {[ok |-> TRUE, hunks |-> hs] : hs \in SeqsUpTo(BlameHunks, MaxHunks)}

\* the blames of a file with four authors or more, ten lines of each
Crowds ==
    {[ok |-> TRUE, hunks |-> [i \in 1..n |-> Hunk(Authors[i], 10, 0)]] : n \in 4..MaxCrowd}

Delta(path) == [old_file |-> <<path>>, new_file |-> <<path>>]

Commit(email, time, deltas) == [email |-> email, time |-> time, deltas |-> deltas]

\* the default of --lookback-days
LookbackDays == 365

\* the commits a walk is made of: by two authors, at the cutoff of a
\* lookback of LookbackDays and a day before it, of the file and another
\* file or of the other file alone

WalkCommits ==
    {Commit(email, time, deltas) :
        email \in {"alice", "bob"},
        time \in {Now - LookbackDays, Now - LookbackDays - 1},
        deltas \in {<<Delta("app.js")>>, <<Delta("app.js"), Delta("src/main.rs")>>}}

Logs == SeqsUpTo(WalkCommits, MaxCommits)

Percentages == {0, 20, 28, 100}

\* a file to analyze with its history
Analyzed(path, blame, log) == [path |-> path, blame |-> blame, log |-> log]

InferArgs(algorithm, lookback_days, min_commits, min_percentage, output_file) ==
    [algorithm |-> algorithm,
     lookback_days |-> lookback_days,
     min_commits |-> min_commits,
     min_percentage |-> min_percentage,
     output_file |-> output_file]

\* no file at the path
Absent == [exists |-> FALSE, writable |-> TRUE, content |-> <<>>]

\* the rule files the output can be appended to: none yet, an empty one, one
\* with a rule, with and without a line feed at its end, and a path that
\* cannot be opened for writing
OutputFiles ==
    { Absent,
      [exists |-> TRUE, writable |-> TRUE, content |-> <<>>],
      [exists |-> TRUE, writable |-> TRUE, content |-> <<"*", " ", "@default-team", "\n">>],
      [exists |-> TRUE, writable |-> TRUE, content |-> <<"*", " ", "@default-team">>],
      [exists |-> TRUE, writable |-> FALSE, content |-> <<"*", " ", "@default-team", "\n">>] }

InferStart ==
    /\ h_pc = "analyze"
    /\ h_i = 0
    /\ h_inferences = <<>>
    /\ h_last = NotAnalyzed
    /\ h_before = h_output
    /\ h_result = <<>>

\* one file, with a history; the output is printed or, for a file with many
\* authors, also appended to a rule file that does not exist yet
InferInit ==
    /\ \/ /\ \E blame \in Blames \cup {NoBlame} :
                h_files = <<Analyzed("src/main.rs", blame, <<>>)>>
          /\ \E algorithm \in {"Lines", "Recent"}, min_commits \in {1, 2},
                min_percentage \in Percentages :
                h_args = InferArgs(algorithm, LookbackDays, min_commits, min_percentage, FALSE)
       \/ /\ \E blame \in Crowds :
                h_files = <<Analyzed("src/main.rs", blame, <<>>)>>
          /\ \E min_percentage \in {0, 20}, output_file \in BOOLEAN :
                h_args = InferArgs("Lines", LookbackDays, 1, min_percentage, output_file)
       \/ /\ \E log \in Logs :
                h_files = <<Analyzed("src/main.rs", [ok |-> TRUE, hunks |-> <<>>], log)>>
          /\ \E lookback_days \in {0, LookbackDays}, min_commits \in {1, 2},
                min_percentage \in {0, 100} :
                h_args = InferArgs("Commits", lookback_days, min_commits, min_percentage, FALSE)
    /\ h_output = Absent
    /\ InferStart

\* the histories of the files of a run that writes a rule file
RunHistories ==
    { NoBlame,
      [ok |-> TRUE, hunks |-> <<Hunk("alice", 70, 0)>>],
      [ok |-> TRUE, hunks |-> <<Hunk("alice", 70, 0), Hunk("alice", 18, 0)>>],
      [ok |-> TRUE, hunks |-> <<Hunk("bob", 7, 45), Hunk("alice", 18, 0)>>] }

\* the lists of files to analyze
RunFiles ==
    {[i \in DOMAIN paths |-> Analyzed(paths[i], hs[i], <<>>)] :
        paths \in {ps \in SeqsUpTo({"src/main.rs", "app.js"}, MaxAnalyzed) :
                        \A i, j \in DOMAIN ps : i # j => ps[i] # ps[j]},
        hs \in [1..MaxAnalyzed -> RunHistories]}

\* some files, the output is printed or appended to a rule file
InferRunInit ==
    /\ h_files \in RunFiles
    /\ \E min_commits \in {1, 2}, min_percentage \in {0, 28}, output_file \in BOOLEAN :
            h_args = InferArgs("Lines", LookbackDays, min_commits, min_percentage, output_file)
    /\ h_output \in OutputFiles
    /\ InferStart

\* lines 102-115: the next file is analyzed
InferAnalyze ==
    /\ h_pc = "analyze"
    /\ h_i < Len(h_files)
    /\ \E file \in {h_files[h_i + 1]} :
       \E contributors \in
            {IF file.blame.ok
             THEN contributors_of(file, h_args.algorithm, h_args.lookback_days,
                                  h_args.min_commits)
             ELSE <<>>} :
       \E order \in HashOrders(contributors) :
       \E r \in {analyze_file_ownership(file, h_args.algorithm, h_args.lookback_days,
                                        h_args.min_commits, h_args.min_percentage,
                                        order)} :
            /\ h_inferences' = IF r.ok THEN Append(h_inferences, r.val) ELSE h_inferences
            /\ h_last' = [called |-> TRUE,
                          file |-> file,
                          contributors |-> contributors,
                          result |-> r]
    /\ h_i' = h_i + 1
    /\ UNCHANGED <<h_args, h_files, h_pc, h_output, h_before, h_result>>
    /\ UNCHANGED <<storeVars, buildVars, syncVars, textVars>>

\* lines 118-119: the rule file is appended to
InferOutputCodeowners ==
    /\ h_pc = "analyze"
    /\ h_i = Len(h_files)
    /\ h_args.output_file
    /\ \E r \in {output_codeowners(h_inferences, h_output)} :
            /\ h_output' = r.file
            /\ h_result' = [ok |-> r.ok]
    /\ h_pc' = "done"
    /\ UNCHANGED <<h_args, h_files, h_i, h_inferences, h_last, h_before>>
    /\ UNCHANGED <<storeVars, buildVars, syncVars, textVars>>

\* lines 120-124: output_text prints and writes no file
InferOutputText ==
    /\ h_pc = "analyze"
    /\ h_i = Len(h_files)
    /\ ~h_args.output_file
    /\ h_result' = [ok |-> TRUE]
    /\ h_pc' = "done"
    /\ UNCHANGED <<h_args, h_files, h_i, h_inferences, h_last, h_output, h_before>>
    /\ UNCHANGED <<storeVars, buildVars, syncVars, textVars>>

InferNext ==
    \/ InferAnalyze
    \/ InferOutputCodeowners
    \/ InferOutputText

(***************************************************************************)
(* The parsers on their own: one of their functions is called on one       *)
(* argument.                                                               *)
(***************************************************************************)
NotRun == [done |-> FALSE]
Returned_(r) == [done |-> TRUE, r |-> r]

TextIdle ==
    /\ t_fn = ""
    /\ t_in = <<>>
    /\ t_out = NotRun

\* the texts of at most n characters of C
Texts(C, n) == UNION {[1..m -> C] : m \in 0..n}

\* NOOWNER in every letter case
NoOwnerSpellings ==
    {[i \in DOMAIN NOOWNER |->
        IF i \in S THEN to_ascii_lowercase(NOOWNER[i]) ELSE NOOWNER[i]] :
     S \in SUBSET DOMAIN NOOWNER}

OwnerStrings ==
    Texts({"@", "/", "a"}, MaxOwnerLen)
        \cup NoOwnerSpellings
        \cup {s \o <<"a">> : s \in NoOwnerSpellings}
        \cup {<<"@">> \o NOOWNER, SubSeq(NOOWNER, 1, 6), <<"a", ".", "a">>}

\* a token of a rule line with the white space before it, and white space
LinePieces ==
    { <<"a">>, <<" ", "a">>, <<" ", "@", "a">>, <<" ", "#", "a">>,
      <<" ", "#">>, <<"\t">> }

RuleLines == {Flatten(ps) : ps \in SeqsUpTo(LinePieces, MaxPieces)}

Patterns == Texts({"/", "*", "a"}, MaxPatternLen)

\* what may follow the marker on a line
InlinePieces ==
    { <<" ", "@", "a">>, <<"@", "a">>, <<" ", "#", "a">>, <<" ", "#">>,
      <<" ", "-", "-", ">">>, <<" ", "#", "a", ".">> }

MarkerLines ==
    {prefix \o Marker \o Flatten(ps) :
        prefix \in {<<>>, <<"/", "/", " ">>},
        ps \in SeqsUpTo(InlinePieces, MaxInlinePieces)}

\* the lines a later marker line is drawn from: owners and a tag, a tag
\* alone, a line that cannot be read
LaterLines ==
    { [ok |-> TRUE, text |-> Marker \o <<" ", "@", "b", " ", "#", "b">>],
      [ok |-> TRUE, text |-> Marker \o <<" ", "#", "b">>],
      BadLine }

\* the line numbers of the lines that are not plain code
LinePositions == {1, InlineScanLines, InlineScanLines + 1}

\* a file that cannot be opened
NoSource == [path |-> "src/special.rs", readable |-> FALSE, n |-> 0, text |-> <<>>]

\* a file of n lines, text being its lines that are not plain code
SourceText(n, text) ==
    [path |-> "src/special.rs", readable |-> TRUE, n |-> n, text |-> text]

\* the files: one marker line, or one marker line and a later line
SourceInit ==
    \/ t_in = NoSource
    \/ \E p \in LinePositions, more \in {0, 1}, l \in MarkerLines :
            t_in = SourceText(p + more, p :> [ok |-> TRUE, text |-> l])
    \/ \E p \in LinePositions, q \in LinePositions, more \in {0, 1},
          l \in MarkerLines, l2 \in LaterLines :
            /\ p < q
            /\ t_in = SourceText(q + more, (p :> [ok |-> TRUE, text |-> l]) @@ (q :> l2))

TextInit ==
    /\ \/ t_fn = "parse_owner" /\ t_in \in OwnerStrings
       \/ t_fn = "parse_line" /\ t_in \in RuleLines
       \/ t_fn = "normalize" /\ t_in \in Patterns
       \/ t_fn = "detect" /\ SourceInit
    /\ t_out = NotRun

\* parse_owner(t_in)
CallParseOwner ==
    /\ t_fn = "parse_owner" /\ t_out = NotRun
    /\ t_out' = Returned_(parse_owner(t_in))
    /\ UNCHANGED <<t_fn, t_in>>
    /\ UNCHANGED <<storeVars, buildVars, syncVars, inferVars>>

\* parse_line(t_in, 0, "CODEOWNERS")
CallParseLine ==
    /\ t_fn = "parse_line" /\ t_out = NotRun
    /\ t_out' = Returned_(parse_line(t_in, 0, "CODEOWNERS"))
    /\ UNCHANGED <<t_fn, t_in>>
    /\ UNCHANGED <<storeVars, buildVars, syncVars, inferVars>>

\* normalize_codeowners_pattern(t_in), and the same of its result
CallNormalize ==
    /\ t_fn = "normalize" /\ t_out = NotRun
    /\ t_out' = Returned_(normalize_codeowners_pattern(t_in))
    /\ UNCHANGED <<t_fn, t_in>>
    /\ UNCHANGED <<storeVars, buildVars, syncVars, inferVars>>

\* detect_inline_codeowners(t_in)
CallDetect ==
    /\ t_fn = "detect" /\ t_out = NotRun
    /\ t_out' = Returned_(detect_inline_codeowners(t_in))
    /\ UNCHANGED <<t_fn, t_in>>
    /\ UNCHANGED <<storeVars, buildVars, syncVars, inferVars>>

TextNext ==
    \/ CallParseOwner
    \/ CallParseLine
    \/ CallNormalize
    \/ CallDetect

(***************************************************************************)
(* The specifications.                                                     *)
(***************************************************************************)
\* the cache store
InitStore == StoreInit /\ BuildIdle /\ SyncIdle /\ TextIdle /\ InferIdle
SpecStore == InitStore /\ [][StoreNext]_vars

\* build_cache
InitBuild == BuildInit /\ StoreIdle /\ SyncIdle /\ TextIdle /\ InferIdle
SpecBuild == InitBuild /\ [][BuildNext]_vars

\* the parsers
InitText == TextInit /\ StoreIdle /\ BuildIdle /\ SyncIdle /\ InferIdle
SpecText == InitText /\ [][TextNext]_vars

\* the inference of one file, and the infer-owners command over some files
InitInfer == InferInit /\ StoreIdle /\ BuildIdle /\ SyncIdle /\ TextIdle
SpecInfer == InitInfer /\ [][InferNext]_vars

InitInferRun == InferRunInit /\ StoreIdle /\ BuildIdle /\ SyncIdle /\ TextIdle
SpecInferRun == InitInferRun /\ [][InferNext]_vars

\* cache sync over a repository
Init == SyncInit /\ StoreIdle /\ BuildIdle /\ TextIdle /\ InferIdle
Spec == Init /\ [][SyncNext]_vars

(***************************************************************************)
(* Properties of sync_cache (specification Spec).                          *)
(***************************************************************************)
\* what holds of the cache file f, which loads as l, and of the fingerprint
\* result fp
FactsOf(f, l, fp) ==
    [exists |-> f.exists,
     loads |-> f.exists /\ l.ok,
     version_ok |-> f.exists /\ l.ok /\ l.cache.version = CACHE_VERSION,
     repo_ok |-> fp.ok,
     hash_eq |-> f.exists /\ l.ok /\ fp.ok /\ l.cache.hash = fp.hash]

Facts(f, fp) == FactsOf(f, load_cache(f), fp)

\* the first condition of the order that holds
FirstCondition(x) ==
    IF ~x.exists THEN "absent"
    ELSE IF ~x.loads THEN "loadfail"
    ELSE IF ~x.version_ok THEN "version"
    ELSE IF ~x.repo_ok THEN "repo_error"
    ELSE IF ~x.hash_eq THEN "hash"
    ELSE "reuse"

PreFacts == Facts(last.pre_file, last.pre_fp)

\* C1: sync_cache stops at the first condition that holds, in the order:
\* file absent, load fails, version differs, fingerprint differs; each of
\* them rebuilds, and otherwise the loaded cache is returned with no rebuild
\* and no write.  The fingerprint is computed only if the file exists, loads
\* and has the current version (and if it cannot be computed, the error is
\* returned with no rebuild and no write).
C1_DecisionOrder ==
    last.op = "sync" =>
        /\ last.branch = FirstCondition(PreFacts)
        /\ last.rebuilt <=> last.branch \in {"absent", "loadfail", "version", "hash"}
        /\ last.hashing <=>
              (PreFacts.exists /\ PreFacts.loads /\ PreFacts.version_ok)
        /\ last.wrote => last.rebuilt
        /\ last.branch = "reuse" =>
              /\ ~last.wrote
              /\ workdir[cache_file] = last.pre_file
              /\ last.result = Ok(load_cache(last.pre_file).cache)
        /\ last.branch = "repo_error" =>
              /\ ~last.wrote
              /\ workdir[cache_file] = last.pre_file
              /\ ~last.result.ok

\* a cache of another version whose fingerprint differs too: the version
\* decides
C1_Witness ==
    /\ last.op = "sync"
    /\ last.branch = "version"
    /\ PreFacts.repo_ok
    /\ ~PreFacts.hash_eq
    /\ last.wrote

\* C2: a sync_cache call that follows a sync_cache call that has returned,
\* with no change of the repository in between, reuses the cache: no
\* rebuild, no write, and the same fingerprint as the first call.
C2_SecondSyncReuses ==
    last.second =>
        /\ last.branch = "reuse"
        /\ ~last.rebuilt
        /\ ~last.wrote
        /\ last.result.ok
        /\ last.result.cache.hash = last.first_hash

\* C3: the hash input of get_repo_hash is the same before and after the
\* cache file is written, whatever its path.
C3_WriteKeepsFingerprint == last.wrote => last.fp_stable

\* C4: when the cache file exists and does not load, sync_cache rebuilds and
\* returns what the rebuild returns, never the decode error.
C4_UnloadableRebuilds ==
    (last.op = "sync" /\ last.pre_file.exists /\ ~load_cache(last.pre_file).ok) =>
        /\ last.rebuilt
        /\ last.result.err # "decode"
        /\ last.result = parse_repo(last.pre_fp.hash).result
        /\ last.result.ok <=> last.wrote

\* a cache file of the current version did not load, and the cache was
\* rebuilt
C4_Witness ==
    /\ last.op = "sync"
    /\ last.pre_file.exists
    /\ last.pre_file.version = CACHE_VERSION
    /\ Len(last.pre_file.bytes) > 1
    /\ ~load_cache(last.pre_file).ok
    /\ last.result.ok

(***************************************************************************)
(* Properties of build_cache (specification SpecBuild).                    *)
(***************************************************************************)
\* entry j of the input compiles and its matcher matches the path
Applies(j, path) ==
    /\ codeowners_entry_to_matcher(b_entries[j]).ok
    /\ path \in codeowners_entry_to_matcher(b_entries[j]).matcher.override_matcher

Compiles(entry) == codeowners_entry_to_matcher(entry).ok

Returned == b_pc = "done" /\ b_result.ok

\* C5: in a cache that build_cache returns, path p is listed under owner o
\* in owners_map iff a FileEntry with path p has o among its owners, the same
\* for tags_map and tags, and no key is without a file.
C5_IndexIsInverse ==
    Returned =>
        LET c == b_result.cache IN
        /\ \A o \in DOMAIN c.owners_map :
              /\ c.owners_map[o] # <<>>
              /\ \A p \in Range(c.owners_map[o]) :
                    \E i \in DOMAIN c.files :
                        c.files[i].path = p /\ o \in Range(c.files[i].owners)
        /\ \A i \in DOMAIN c.files : \A o \in Range(c.files[i].owners) :
              o \in DOMAIN c.owners_map /\ c.files[i].path \in Range(c.owners_map[o])
        /\ \A t \in DOMAIN c.tags_map :
              /\ c.tags_map[t] # <<>>
              /\ \A p \in Range(c.tags_map[t]) :
                    \E i \in DOMAIN c.files :
                        c.files[i].path = p /\ t \in Range(c.files[i].tags)
        /\ \A i \in DOMAIN c.files : \A t \in Range(c.files[i].tags) :
              t \in DOMAIN c.tags_map /\ c.files[i].path \in Range(c.tags_map[t])

\* two files with different owners, one of them with tags
C5_Witness ==
    /\ Returned
    /\ Cardinality(DOMAIN b_result.cache.owners_map) > 1
    /\ DOMAIN b_result.cache.tags_map # {}

(***************************************************************************)
(* Properties of store_cache and load_cache (specification SpecStore).     *)
(***************************************************************************)
SameCache(a, b) ==
    /\ a.hash = b.hash
    /\ a.entries = b.entries
    /\ a.files = b.files
    /\ a.owners_map = b.owners_map
    /\ a.tags_map = b.tags_map

\* C6: whatever the cache value, a file written by store_cache in either
\* encoding loads, and the loaded cache has the fingerprint, entries, files,
\* owners_map and tags_map of the stored one.
C6_RoundTrip ==
    (st_load.done /\ st_intact) => (st_load.ok /\ SameCache(st_load.cache, st_cache))

\* C7: load_cache starts with the decoder the first byte selects, and
\* reports a failure only after it has tried both decoders.
C7_FallbackBothWays ==
    st_load.done =>
        /\ st_load.tried[1] =
              IF st_file.bytes # <<>> /\ Head(st_file.bytes) = LBrace
              THEN "Json" ELSE "Bincode"
        /\ ~st_load.ok => Range(st_load.tried) = Encodings

(***************************************************************************)
(* Properties of the resolution in build_cache (specification SpecBuild).  *)
(***************************************************************************)
\* the entries of the input that apply to the path, by position
Applying(path) == {j \in DOMAIN b_entries : Applies(j, path)}

Last(S) == CHOOSE j \in S : \A k \in S : k <= j

\* the lines of a file that detect_inline_codeowners reads and that hold the
\* marker
ScannedLines(f) == {k \in 1..f.n : k <= InlineScanLines}
HasMarker(f, k) == LineOf(f, k).ok /\ find(LineOf(f, k).text, Marker) # 0
MarkerLinesOf(f) == {k \in ScannedLines(f) : HasMarker(f, k)}
FirstOf(S) == CHOOSE k \in S : \A j \in S : k <= j
TokensAfterMarker(line) ==
    split_whitespace(SubSeq(line, find(line, Marker) + Len(Marker), Len(line)))

\* the file holds no inline marker
NoInline(path) == \A k \in 1..SourceOf(path).n : ~HasMarker(SourceOf(path), k)

C9_BadPatternSkipped ==
    b_pc = "done" =>
        /\ b_result.ok
        /\ [j \in DOMAIN matched_entries |-> matched_entries[j].line_number]
              = [j \in DOMAIN SelectSeq(b_entries, Compiles) |->
                    SelectSeq(b_entries, Compiles)[j].line_number]
        /\ b_result.cache.files =
              build_cache(SelectSeq(b_entries, Compiles), b_files, b_hash,
                          b_failing).cache.files
        /\ b_result.cache.owners_map =
              build_cache(SelectSeq(b_entries, Compiles), b_files, b_hash,
                          b_failing).cache.owners_map

\* a build with an entry that does not compile, one that does, and a file
C9_Witness ==
    /\ b_pc = "done"
    /\ \E j \in DOMAIN b_entries : ~Compiles(b_entries[j])
    /\ \E j \in DOMAIN b_entries : Compiles(b_entries[j])
    /\ b_files # <<>>

C11_NoRepoNoWrite ==
    (last.op = "parse" /\ ~isRepo) =>
        /\ ~last.result.ok
        /\ ~last.wrote
        /\ workdir[cache_file] = last.pre_file

\* the parse command has failed outside a repository, over a file that was
\* already at the cache path
C11_Witness ==
    /\ last.op = "parse"
    /\ ~isRepo
    /\ ~last.result.ok
    /\ last.pre_file.exists
    /\ workdir[cache_file] = last.pre_file

(***************************************************************************)
(* Properties of the parsers (specification SpecText).                     *)
(***************************************************************************)
Called(fn) == t_fn = fn /\ t_out.done

\* the tokens of a line, and the position of the first token after the
\* pattern that starts with '#' (one past the end if there is none)
TokensOf(line) == split_whitespace(line)
IsHashToken(token) == token # <<>> /\ token[1] = "#"
FirstHash(tokens) ==
    LET hs == {i \in 2..Len(tokens) : IsHashToken(tokens[i])} IN
    IF hs = {} THEN Len(tokens) + 1 ELSE CHOOSE i \in hs : \A j \in hs : i <= j

\* token j is taken for a tag: it is '#name', and it is the last token or
\* the next token starts with '#'
TakenAsTag(tokens, j) ==
    /\ IsHashToken(tokens[j]) /\ Len(tokens[j]) > 1
    /\ (j = Len(tokens) \/ IsHashToken(tokens[j + 1]))

\* C12: in parse_line, after the owner tokens, a token '#name' becomes a tag
\* only if it is the last token of the line or the next token starts with
\* '#'; the first token that is not taken (a bare '#', a '#name' before a
\* token without '#', a token without '#') ends the tags, and no later token
\* becomes a tag.
C12_TagLookahead ==
    (Called("parse_line") /\ t_out.r.val # <<>>) =>
        LET tokens == TokensOf(t_in)
            k == FirstHash(tokens)
            taken == {j \in k..Len(tokens) :
                        \A m \in k..j : TakenAsTag(tokens, m)}
        IN  t_out.r.val[1].tags =
                [i \in 1..Cardinality(taken) |-> Tail(tokens[k + i - 1])]

\* a line with a tag that is taken, before a '#name' that is not
C12_Witness ==
    /\ Called("parse_line") /\ t_out.r.val # <<>>
    /\ LET tokens == TokensOf(t_in)
           n == Len(t_out.r.val[1].tags)
           k == FirstHash(tokens)
       IN  /\ n >= 1
           /\ k + n < Len(tokens)
           /\ IsHashToken(tokens[k + n]) /\ Len(tokens[k + n]) > 1

\* C13: parse_line returns no error for any line; it returns no entry
\* exactly when the trimmed line is empty or starts with '#'; otherwise one
\* entry, whose pattern is the first token and whose owners are the tokens
\* after it, in order, up to the first token that starts with '#'; a line
\* with a pattern alone gives empty owners and tags.
C13_ParseLineTotal ==
    Called("parse_line") =>
        LET solid == {i \in DOMAIN t_in : t_in[i] \notin Whitespace}
            tokens == TokensOf(t_in)
            k == FirstHash(tokens)
            val == t_out.r.val
        IN  /\ t_out.r.ok
            /\ (val = <<>>) <=>
                    (solid = {} \/ \E i \in solid : /\ t_in[i] = "#"
                                                   /\ \A j \in solid : i <= j)
            /\ val # <<>> =>
                /\ Len(val) = 1
                /\ val[1].pattern = tokens[1]
                /\ Len(val[1].owners) = k - 2
                /\ \A i \in 1..(k - 2) : val[1].owners[i].identifier = tokens[i + 1]
                /\ Len(tokens) = 1 => (val[1].owners = <<>> /\ val[1].tags = <<>>)

\* a line with a pattern alone, with white space around it
C13_Witness ==
    /\ Called("parse_line")
    /\ Len(TokensOf(t_in)) = 1
    /\ Len(t_in) > Len(TokensOf(t_in)[1])
    /\ t_out.r.val # <<>>
    /\ t_out.r.val[1].owners = <<>>

\* the number of '/' in a text
Slashes(cs) == Cardinality({i \in DOMAIN cs : cs[i] = "/"})
IsNoOwner(cs) ==
    /\ Len(cs) = Len(NOOWNER)
    /\ \A i \in DOMAIN cs : cs[i] \in {NOOWNER[i], to_ascii_lowercase(NOOWNER[i])}
StartsWithAt(cs) == cs # <<>> /\ cs[1] = "@"

C16_NormalizeIdempotent ==
    Called("normalize") =>
        LET n == Len(t_in)
            bare_dir == /\ n >= 1 /\ t_in[n] = "/"
                        /\ ~(n >= 2 /\ t_in[n - 1] = "*")
        IN  /\ normalize_codeowners_pattern(t_out.r) = t_out.r
            /\ bare_dir => t_out.r = t_in \o <<"*", "*">>
            /\ ~bare_dir => t_out.r = t_in

\* a directory pattern has been normalized, and a pattern that ends in '*/'
\* has been left alone
C16_Witness ==
    /\ Called("normalize")
    /\ t_in = <<"a", "/">>
    /\ t_out.r = <<"a", "/", "*", "*">>

\* C17: detect_inline_codeowners looks at the first line with the marker
\* only: its result is what that line gives, an entry or none, whatever the
\* later lines hold.
C17_FirstMarkerDecides ==
    (Called("detect") /\ t_in.readable /\ MarkerLinesOf(t_in) # {}) =>
        LET k == FirstOf(MarkerLinesOf(t_in)) IN
        t_out.r = parse_inline_codeowners_line(LineOf(t_in, k).text, k, t_in.path)

\* C18: detect_inline_codeowners reads the first 50 lines at most: a file
\* whose first marker is on line 51 or later gives no entry, and the
\* line_number of an entry is between 1 and 50.
C18_FirstFiftyLines ==
    Called("detect") =>
        /\ t_out.r.ok
        /\ t_out.r.val # <<>> => t_out.r.val[1].line_number \in 1..50
        /\ (\A k \in 1..t_in.n : HasMarker(t_in, k) => k >= 51) => t_out.r.val = <<>>

\* a file whose line 51 holds a marker with an owner has been scanned
C18_Witness ==
    /\ Called("detect") /\ t_in.readable
    /\ t_in.n >= 51 /\ HasMarker(t_in, 51)
    /\ parse_inline_codeowners_line(LineOf(t_in, 51).text, 51, t_in.path).val # <<>>
    /\ t_out.r.val = <<>>

\* C19: an inline entry has at least one owner: a marker line whose first
\* token after the marker starts with '#', or that has nothing after the
\* marker, gives no entry.
C19_EntryHasOwner ==
    Called("detect") =>
        /\ t_out.r.val # <<>> => t_out.r.val[1].owners # <<>>
        /\ \A k \in MarkerLinesOf(t_in) :
                LET tokens == TokensAfterMarker(LineOf(t_in, k).text) IN
                (tokens = <<>> \/ IsHashToken(tokens[1])) =>
                    (t_out.r.val = <<>> \/ t_out.r.val[1].line_number # k)

\* a file whose only marker line has a tag and no owner has been scanned
C19_Witness ==
    /\ Called("detect") /\ t_in.readable
    /\ MarkerLinesOf(t_in) = {1}
    /\ LET tokens == TokensAfterMarker(LineOf(t_in, 1).text) IN
            tokens # <<>> /\ IsHashToken(tokens[1]) /\ Len(tokens[1]) > 1
    /\ t_out.r.val = <<>>

(***************************************************************************)
(* Properties of the build over files with inline markers (specification   *)
(* SpecBuild).                                                             *)
(***************************************************************************)
SpecialTeam == Owner("@special-team", "User")

\* C20: a file that starts with the line
\* '// !!!CODEOWNERS @special-team #special' and that no rule matches is
\* recorded in the cache with the owner @special-team and the tag special,
\* in its file entry and in the two indexes.
C20_InlineEntryRecorded ==
    Returned =>
        \A i \in DOMAIN b_result.cache.files :
            LET fe == b_result.cache.files[i] IN
            (/\ fe.path = "src/special.rs"
             /\ fe.path \notin b_failing
             /\ Applying(fe.path) = {}) =>
                /\ fe.owners = <<SpecialTeam>>
                /\ fe.tags = <<"special">>
                /\ SpecialTeam \in DOMAIN b_result.cache.owners_map
                /\ fe.path \in Range(b_result.cache.owners_map[SpecialTeam])
                /\ "special" \in DOMAIN b_result.cache.tags_map
                /\ fe.path \in Range(b_result.cache.tags_map["special"])

\* the file with the marker has been resolved next to another file, under a
\* rule that compiles and matches the other file only
C20_Witness ==
    /\ Returned
    /\ "src/special.rs" \in Range(b_files) \ b_failing
    /\ "docs/README.md" \in Range(b_files)
    /\ Applying("src/special.rs") = {}
    /\ Applying("docs/README.md") # {}
    /\ \E i \in DOMAIN b_result.cache.files :
            b_result.cache.files[i] =
                FileEntry("src/special.rs", <<SpecialTeam>>, <<"special">>)

(***************************************************************************)
(* Properties of the inference engine (specifications SpecInfer and        *)
(* SpecInferRun).  A score is compared with a share of a total as a real   *)
(* number: an f64 is the number m * 2^e, and sums and products of such     *)
(* numbers are formed without rounding.                                    *)
(***************************************************************************)
\* the sum of the numbers a and b
ExactSum(a, b) ==
    [m |-> AddNat(Scaled(a, MinExp(a, b)), Scaled(b, MinExp(a, b))), e |-> MinExp(a, b)]

\* k times the number a, for a natural number k
ExactTimes(k, a) == [m |-> MulNat(NatOf(k), a.m), e |-> a.e]

\* a >= b as numbers
ExactGe(a, b) == GeNat(Scaled(a, MinExp(a, b)), Scaled(b, MinExp(a, b)))

RECURSIVE TotalOf(_, _)
\* the sum of the scores of the contributors S
TotalOf(contributors, S) ==
    IF S = {} THEN F64Zero
    ELSE With(CHOOSE e \in S : TRUE, LAMBDA e :
            ExactSum(contributors[e].score, TotalOf(contributors, S \ {e})))

\* the last call of analyze_file_ownership returned an inference
Analyzed_ == h_last.called /\ h_last.result.ok

\* the walk of the file's commits goes back in time
Chronological(log) == \A i, j \in DOMAIN log : i < j => log[i].time >= log[j].time

\* a commit inside the lookback window
InWindow(commit, lookback_days) ==
    lookback_days = 0 \/ Now - commit.time <= lookback_days

\* the commits of the history that count for email under the algorithm: its
\* hunks of the blame, or its commits of the walk that are inside the window
\* and touch the file
CommitsOf(file, email, args) ==
    IF args.algorithm = "Commits"
    THEN Cardinality({i \in DOMAIN file.log :
            /\ file.log[i].email = email
            /\ InWindow(file.log[i], args.lookback_days)
            /\ \E d \in Range(file.log[i].deltas) :
                    file.path \in Range(d.old_file) \cup Range(d.new_file)})
    ELSE Cardinality({i \in DOMAIN file.blame.hunks : file.blame.hunks[i].email = email})

\* the contributors with min_commits commits or more
Passing(file, args) ==
    {e \in Emails : /\ CommitsOf(file, e, args) > 0
                    /\ CommitsOf(file, e, args) >= args.min_commits}

CandidatesOf(inference) ==
    {inference.inferred_owners[i].email : i \in DOMAIN inference.inferred_owners}

SortedByScore(owners) ==
    \A i, j \in DOMAIN owners : i < j => f64_ge(owners[i].score, owners[j].score)

\* C21: after analyze_file_ownership the candidates are the contributors with
\* min_commits commits or more whose score is at least min_percentage
\* percent of T, the sum of the scores of the contributors with min_commits
\* commits or more (one exactly at the threshold is kept), each once and
\* sorted by score descending.
C21_CandidatesByThreshold ==
    (Analyzed_ /\ Chronological(h_last.file.log)) =>
        With(Passing(h_last.file, h_args), LAMBDA passing :
            /\ DOMAIN h_last.contributors = passing
            /\ With(TotalOf(h_last.contributors, passing), LAMBDA T :
                  CandidatesOf(h_last.result.val) =
                    {e \in passing :
                        ExactGe(ExactTimes(100, h_last.contributors[e].score),
                                ExactTimes(h_args.min_percentage, T))})
            /\ Len(h_last.result.val.inferred_owners)
                    = Cardinality(CandidatesOf(h_last.result.val))
            /\ SortedByScore(h_last.result.val.inferred_owners))

\* the confidence of the candidates alone: top_score over the sum of the
\* candidates' scores, added up in the given order, times the penalty
CandidateConfidence(owners, order) ==
    clamp01(f64_mul(f64_div(owners[1].score,
                            sum([i \in DOMAIN order |-> owners[order[i]]], Len(order))),
                    candidate_penalty(Len(owners))))

\* C22: the confidence of an inference is 0 without candidates and otherwise
\* (top_score / total_score) * (1 - 0.1 * min(candidate_count, 5)) clamped
\* to [0, 1], total_score being the sum of the scores of the candidates
\* that survived the filter (in some order of adding them up).
C22_ConfidenceFromCandidates ==
    Analyzed_ =>
        With(h_last.result.val, LAMBDA inference :
            IF inference.inferred_owners = <<>> THEN inference.confidence = F64Zero
            ELSE \E order \in Orderings(DOMAIN inference.inferred_owners) :
                    inference.confidence
                        = CandidateConfidence(inference.inferred_owners, order))

\* the last call of analyze_file_ownership walked the commits, in
\* reverse-chronological order
Walked ==
    /\ h_last.called
    /\ h_args.algorithm = "Commits"
    /\ h_last.file.blame.ok
    /\ Chronological(h_last.file.log)

\* C23: when the commits are visited in reverse-chronological order,
\* analyze_by_commits gives each author one commit and one unit of score for
\* every commit of the walk that is inside the lookback window and touches
\* the file, and nothing for any other commit; the authors with fewer than
\* min_commits such commits are then discarded.
C23_CommitsCounted ==
    Walked =>
        \A e \in Emails :
            With(CommitsOf(h_last.file, e, h_args), LAMBDA n :
                IF n > 0 /\ n >= h_args.min_commits
                THEN /\ e \in DOMAIN h_last.contributors
                     /\ h_last.contributors[e].commits = n
                     /\ h_last.contributors[e].score = F64(n)
                ELSE e \notin DOMAIN h_last.contributors)

\* a walk that stopped at a commit older than the cutoff, after it counted a
\* commit inside the window
C23_Witness ==
    /\ Walked
    /\ h_args.lookback_days > 0
    /\ \E i, j \in DOMAIN h_last.file.log :
            /\ i < j
            /\ InWindow(h_last.file.log[i], h_args.lookback_days)
            /\ commit_touches_file(h_last.file.log[i], h_last.file.path)
            /\ h_last.file.log[i].email \in DOMAIN h_last.contributors
            /\ ~InWindow(h_last.file.log[j], h_args.lookback_days)
            /\ commit_touches_file(h_last.file.log[j], h_last.file.path)

HasCandidate(inference) == inference.inferred_owners # <<>>

\* a candidate of the inference with the highest score
TopEmails(inference) ==
    {inference.inferred_owners[i].email : i \in
        {i \in DOMAIN inference.inferred_owners :
            \A j \in DOMAIN inference.inferred_owners :
                f64_ge(inference.inferred_owners[i].score,
                       inference.inferred_owners[j].score)}}

\* the run wrote its inferences to the rule file
Appended == h_pc = "done" /\ h_args.output_file /\ h_result.ok

\* C24: output_codeowners only appends: the content the rule file had
\* before the call is a prefix of its content after it, and what follows
\* that prefix is one line "path email" for each inference with a
\* candidate, in the order of the inferences, email being a top-scored
\* candidate of the inference; a call that fails leaves the file as it was.
C24_AppendOnly ==
    /\ (h_pc = "done" /\ h_args.output_file /\ ~h_result.ok) => h_output = h_before
    /\ Appended =>
        With(SelectSeq(h_inferences, HasCandidate), LAMBDA written :
            /\ Len(h_output.content) = Len(h_before.content) + (4 * Len(written))
            /\ Prefix(h_output.content, Len(h_before.content)) = h_before.content
            /\ \A k \in DOMAIN written :
                  With(Len(h_before.content) + (4 * (k - 1)), LAMBDA at :
                    /\ h_output.content[at + 1] = written[k].file_path
                    /\ h_output.content[at + 2] = " "
                    /\ h_output.content[at + 3] \in TopEmails(written[k])
                    /\ h_output.content[at + 4] = "\n"))

\* lines were appended to a rule file that had content, for some of the
\* inferences: one of them has no candidate
C24_Witness ==
    /\ Appended
    /\ h_before.content # <<>>
    /\ \E i, j \in DOMAIN h_inferences :
            HasCandidate(h_inferences[i]) /\ ~HasCandidate(h_inferences[j])

\* the f64 of the literal 0.k, for a digit k
Tenths(k) == f64_div(F64(k), F64(10))

\* C30: the confidence of an inference is in [0, 0.9]: 0 without
\* candidates, at most 1 - 0.1 * k with k candidates for k <= 5 and at most
\* 0.5 with more, so it is never 1.
C30_ConfidenceBound ==
    Analyzed_ =>
        With(h_last.result.val, LAMBDA inference :
        With(Len(inference.inferred_owners), LAMBDA k :
            /\ f64_ge(inference.confidence, F64Zero)
            /\ f64_ge(Tenths(9), inference.confidence)
            /\ inference.confidence # F64(1)
            /\ k = 0 => inference.confidence = F64Zero
            /\ k > 0 => f64_ge(Tenths(10 - (IF k < 5 THEN k ELSE 5)), inference.confidence)))

\* a sole contributor holds the whole score, and the confidence is 0.9
C30_Witness ==
    /\ Analyzed_
    /\ Cardinality(DOMAIN h_last.contributors) = 1
    /\ Len(h_last.result.val.inferred_owners) = 1
    /\ h_last.result.val.confidence = Tenths(9)

(***************************************************************************)
(* Properties of the phases of build_cache (specification SpecBuild).      *)
(***************************************************************************)
\* the files whose progress number has been taken: file k of chunk c
Counted == UNION {{<<c, k>> : k \in DOMAIN b_current[c]} : c \in DOMAIN b_current}

\* the parallel phase of a build is over
PhaseOver == b_pc = "index" \/ (b_pc = "done" /\ b_result.ok)

\* C25: under every interleaving of the workers the progress counter never
\* decreases, the files processed so far have taken distinct progress
\* numbers between 1 and the number of files, the counter is the number of
\* files that have taken one, and it is the number of files when the
\* parallel phase is over.
C25_ProgressCounter ==
    /\ [](/\ \A s, t \in Counted :
                s # t => b_current[s[1]][s[2]] # b_current[t[1]][t[2]]
          /\ \A s \in Counted : b_current[s[1]][s[2]] \in 1..Len(b_files)
          /\ processed_count = Cardinality(Counted)
          /\ PhaseOver => processed_count = Len(b_files))
    /\ [][processed_count' >= processed_count]_vars

\* the parallel phase of a build of MaxFiles files is over, and the worker
\* of the second chunk took its number before the worker of the first chunk
\* took its second one
C25_Witness ==
    /\ PhaseOver
    /\ Len(b_files) = MaxFiles
    /\ Len(b_current) > 1
    /\ Len(b_current[1]) > 1
    /\ b_current[2][1] < b_current[1][2]

\* every file of every chunk has been resolved
AllResolved == \A c \in DOMAIN b_pos : b_pos[c] = Len(Chunk(b_files, c))

\* the number of times x occurs in the sequence s
Occurrences(s, x) == Cardinality({i \in DOMAIN s : s[i] = x})

\* the number of times the first n file entries name key, in their owners
\* or in their tags, for the path
Named(field, key, path, n) ==
    Cardinality(UNION {{<<i, j>> : j \in {j \in DOMAIN file_entries[i][field] :
                                                file_entries[i][field][j] = key}} :
                        i \in {i \in 1..n : file_entries[i].path = path}})

\* the keys the file entries name in the field
KeysOf(field) == UNION {Range(file_entries[i][field]) : i \in DOMAIN file_entries}

\* C26: nothing is inserted into owners_map or tags_map before every file
\* of every chunk has been resolved, and the index pass then visits every
\* resolved FileEntry once: after n visits the maps hold, for every key and
\* path, one occurrence of the path for each time one of the first n entries
\* names the key, and the pass ends after as many visits as there are files.
C26_IndexAfterBarrier ==
    /\ (b_i > 0 \/ owners_map # EmptyMap \/ tags_map # EmptyMap) => AllResolved
    /\ PhaseOver =>
        /\ Len(file_entries) = Len(b_files)
        /\ b_i <= Len(file_entries)
        /\ b_pc = "done" => b_i = Len(file_entries)
        /\ DOMAIN owners_map \subseteq KeysOf("owners")
        /\ DOMAIN tags_map \subseteq KeysOf("tags")
        /\ \A path \in FilePaths :
            /\ \A key \in KeysOf("owners") :
                  Named("owners", key, path, b_i)
                    = IF key \in DOMAIN owners_map
                      THEN Occurrences(owners_map[key], path) ELSE 0
            /\ \A key \in KeysOf("tags") :
                  Named("tags", key, path, b_i)
                    = IF key \in DOMAIN tags_map
                      THEN Occurrences(tags_map[key], path) ELSE 0

\* the index pass of a build of MaxFiles files in two chunks has visited
\* every entry and has filled both maps
C26_Witness ==
    /\ b_pc = "done"
    /\ b_result.ok
    /\ Len(b_pos) = 2
    /\ b_i = MaxFiles
    /\ owners_map # EmptyMap
    /\ tags_map # EmptyMap

\* build_cache has returned a cache
Built == b_pc = "done" /\ b_result.ok

\* C27: whatever the interleaving of the workers and the progress numbers
\* they took, the cache build_cache returns has the records (path, owners,
\* tags) and the owners_map and tags_map that a sequential loop over the
\* files builds from the same entries, files and fingerprint.
C27_SchedulingIndependent ==
    Built =>
        With(build_cache(b_entries, b_files, b_hash, b_failing), LAMBDA sequential :
            /\ sequential.ok
            /\ Range(b_result.cache.files) = Range(sequential.cache.files)
            /\ Len(b_result.cache.files) = Len(sequential.cache.files)
            /\ b_result.cache.owners_map = sequential.cache.owners_map
            /\ b_result.cache.tags_map = sequential.cache.tags_map
            /\ b_result.cache.hash = b_hash
            /\ b_result.cache.entries = b_entries)

\* a cache built from two chunks whose workers did not run one after the
\* other: the second chunk was finished before the first, and both hold a
\* file with an owner
C27_Witness ==
    /\ Built
    /\ Len(b_current) = 2
    /\ b_current[2][1] < b_current[1][Len(b_current[1])]
    /\ \A c \in DOMAIN b_out : \E i \in DOMAIN b_out[c] : b_out[c][i].owners # <<>>

(***************************************************************************)
(* What sync_cache returns (specification Spec).                           *)
(***************************************************************************)
\* the last operation was a sync_cache that returned a cache
Synced == last.op = "sync" /\ last.result.ok

\* C28: a cache that sync_cache returns has the version CACHE_VERSION; on
\* the reuse branch its hash is the fingerprint get_repo_hash computed in
\* the call; on a rebuild branch the call returns what parse_repo returns
\* for the repository as the call found it, which is never the cache that
\* was loaded and failed a check.
C28_ReturnedCache ==
    /\ [](Synced =>
            /\ last.result.cache.version = CACHE_VERSION
            /\ last.branch = "reuse" \/ last.branch \in RebuildBranches
            /\ last.branch = "reuse" =>
                /\ last.pre_fp.ok
                /\ last.result.cache.hash = last.pre_fp.hash
                /\ last.result.cache = load_cache(last.pre_file).cache
            /\ (last.rebuilt /\ last.pre_file.exists /\ load_cache(last.pre_file).ok) =>
                    last.result.cache # load_cache(last.pre_file).cache)
    /\ [][(last'.op = "sync" /\ last'.rebuilt) =>
            \E d \in Digests :
                /\ last'.pre_fp = get_repo_hash(d)
                /\ last'.result = parse_repo(d).result]_vars

\* a sync_cache that rebuilt a cache which loaded but had another version
C28_Witness ==
    /\ Synced
    /\ last.branch = "version"
    /\ load_cache(last.pre_file).ok

(***************************************************************************)
(* The inspect command against the cache it reads (specification           *)
(* SpecBuild).                                                             *)
(***************************************************************************)
\* inspect has reported a file of the cache
Reported == inspected.called /\ inspected.ok

\* the rule whose owners the resolver gave the file, if a rule did: the
\* file has no inline entry and its resolution did not fail
DeterminingRule(file_path) ==
    IF \/ file_path \in b_failing
       \/ detect_inline_codeowners(SourceOf(file_path)).val # <<>>
    THEN <<>>
    ELSE LastMatch(file_path, matched_entries, <<>>)

SameRule(entry, matcher) ==
    /\ entry.source_file = matcher.source_file
    /\ entry.line_number = matcher.line_number
    /\ entry.pattern = matcher.pattern

\* C29: when the inspected file has owners in the cache, the rule that gave
\* it those owners (the last matching rule) is among the matching rules
\* inspect reports, and every rule inspect reports has a matcher that
\* compiles and matches the file.
C29_InspectConsistent ==
    Reported =>
        /\ (inspected.owners # <<>> /\ DeterminingRule(inspected.file_path) # <<>>) =>
                \E i \in DOMAIN inspected.matching_rules :
                    SameRule(inspected.matching_rules[i],
                             DeterminingRule(inspected.file_path)[1])
        /\ \A i \in DOMAIN inspected.matching_rules :
                With(codeowners_entry_to_matcher(inspected.matching_rules[i]), LAMBDA m :
                    m.ok /\ inspected.file_path \in m.matcher.override_matcher)

=============================================================================
